---- MODULE Spec2Model ----
(***************************************************************************)
(* A model of schema-idb's database opening path: the schema reader, the  *)
(* differ, the removed-store policy, the version resolver, the upgrade    *)
(* executor and the migration ledger, over one IndexedDB database that is *)
(* opened again and again with changing configurations.                    *)
(*                                                                         *)
(* Strings that the code builds or inspects are modelled by their         *)
(* structure: a store name is [base, del]; del = 0 is the plain name      *)
(* `base`, del = v > 0 is the backup name "__<base>_deleted_v<v>__".      *)
(* The ledger store "__schema_history__" is the one plain name that       *)
(* starts with "__"; what it holds is the ledger field of the database.   *)
(* A keyPath is [kind, path] with kind "scalar", "array" or "null".       *)
(* Migration names are naturals, ordered as localeCompare orders the      *)
(* names they stand for.                                                   *)
(***************************************************************************)
EXTENDS Naturals, Sequences, FiniteSets, TLC

(* ------------------------------ bounds --------------------------------- *)

\* highest database version an open may request
MaxVersion == 3

\* migration names are 1..MaxMig
MaxMig == 2

\* the highest version of SpecData
MaxDataVersion == 4

\* store operations invoked on one database object
MaxCalls == 2

\* operations queued on one transaction
MaxOps == 2

(* ------------------------------ helpers -------------------------------- *)

Range(s) == {s[i] : i \in 1..Len(s)}

RECURSIVE Flatten(_)
Flatten(ss) == IF ss = <<>> THEN <<>> ELSE Head(ss) \o Flatten(Tail(ss))

\* an optional value: <<>> is undefined, <<v>> is v
OrFalse(opt) == IF opt = <<>> THEN FALSE ELSE opt[1]

(* ------------------------------ names ---------------------------------- *)

StoreName(base) == [base |-> base, del |-> 0]

\* `__${storeName}_deleted_v${currentVersion}__`
\* a fault: the backup name does not embed the version
BackupNameNoVersion(storeName, currentVersion) == [base |-> storeName.base, del |-> 1]

BackupName(storeName, currentVersion) == [base |-> storeName.base, del |-> currentVersion]

\* '__schema_history__', the store that holds the ledger
SchemaHistoryStore == [base |-> "__schema_history__", del |-> 0]

\* a fault: no name counts as internal
isInternalStoreNever(storeName) == FALSE

\* storeName.startsWith('__'): the backup names and the ledger store
isInternalStore(storeName) == storeName.del # 0 \/ storeName = SchemaHistoryStore

\* DOMStringList order of store and index names (sorted by code unit, so
\* the names that start with "__" come before the plain ones)
BaseOrder == <<"posts", "users">>

IndexOrder == <<"email", "title">>

\* "__posts_deleted_v..." < "__schema_history__" < "__users_deleted_v..."
UnderscoreOrder == <<"posts", "__schema_history__", "users">>

Position(order, x) == CHOOSE i \in 1..Len(order) : order[i] = x

\* a sorts before b
NameBefore(a, b) ==
  IF (a.del # 0 \/ a = SchemaHistoryStore) /\ (b.del # 0 \/ b = SchemaHistoryStore)
  THEN \/ Position(UnderscoreOrder, a.base) < Position(UnderscoreOrder, b.base)
       \/ a.base = b.base /\ a.del < b.del
  ELSE IF a.del # 0 \/ a = SchemaHistoryStore THEN TRUE
  ELSE IF b.del # 0 \/ b = SchemaHistoryStore THEN FALSE
  ELSE Position(BaseOrder, a.base) < Position(BaseOrder, b.base)

FirstName(S) == CHOOSE a \in S : \A b \in S \ {a} : NameBefore(a, b)

\* the names of S as objectStoreNames lists them
RECURSIVE SortedStoreNames(_)
SortedNamesFrom(S, first) == <<first>> \o SortedStoreNames(S \ {first})

SortedStoreNames(S) == IF S = {} THEN <<>> ELSE SortedNamesFrom(S, FirstName(S))

SortedIndexNames(S) == SelectSeq(IndexOrder, LAMBDA n : n \in S)

(* ------------------------------ keyPaths ------------------------------- *)

Scalar(s) == [kind |-> "scalar", path |-> <<s>>]

Array(p) == [kind |-> "array", path |-> p]

NullKeyPath == [kind |-> "null", path |-> <<>>]

\* a fault: a string and a one-element list of that string compare equal
keyPathEqualsFlattened(a, b) == a.path = b.path

keyPathEquals(a, b) ==
  IF a.kind = "scalar" /\ b.kind = "scalar" /\ a.path = b.path THEN TRUE
  ELSE IF a.kind = "null" /\ b.kind = "null" THEN TRUE
  ELSE IF a.kind = "null" \/ b.kind = "null" THEN FALSE
  ELSE IF a.kind = "array" /\ b.kind = "array"
       THEN IF Len(a.path) # Len(b.path) THEN FALSE
            ELSE \A i \in 1..Len(a.path) : a.path[i] = b.path[i]
  ELSE FALSE

(* --------------------------- schema reading ---------------------------- *)

\* the persisted database: version 0 means it does not exist
EmptyMap == [k \in {} |-> {}]

MapPut(f, key, v) == [k \in DOMAIN f \cup {key} |-> IF k = key THEN v ELSE f[k]]

MapRemove(f, key) == [k \in DOMAIN f \ {key} |-> f[k]]

NoDatabase == [version |-> 0, stores |-> EmptyMap, history |-> FALSE, ledger |-> {}]

\* db.objectStoreNames: the user stores, the backups and the ledger store
objectStoreNames(idb) ==
  DOMAIN idb.stores \cup (IF idb.history THEN {SchemaHistoryStore} ELSE {})

\* tx.objectStore(storeName); the ledger store is keyed by the migration name
objectStore(idb, storeName) ==
  IF storeName = SchemaHistoryStore
  THEN [keyPath |-> Scalar("name"), indexes |-> EmptyMap, records |-> {}]
  ELSE idb.stores[storeName]

readExistingSchema(idb) ==
  LET names == {n \in objectStoreNames(idb) : ~isInternalStore(n)}
  IN  [n \in names |->
         [name |-> n, keyPath |-> objectStore(idb, n).keyPath,
          indexes |-> objectStore(idb, n).indexes]]

toDesiredSchema(stores) ==
  [i \in 1..Len(stores) |->
     [name |-> stores[i].name, keyPath |-> stores[i].keyPath, indexes |-> stores[i].indexes]]

DesiredNames(desired) == {desired[i].name : i \in 1..Len(desired)}

(* --------------------------- schema comparison ------------------------- *)

IndexAdd(storeName, desiredIndex) ==
  [type |-> "index_add", storeName |-> storeName, indexName |-> desiredIndex.name,
   index |-> desiredIndex]

IndexDelete(storeName, indexName) ==
  [type |-> "index_delete", storeName |-> storeName, indexName |-> indexName]

IndexChanged(existingIndex, desiredIndex) ==
  \/ ~keyPathEquals(existingIndex.keyPath, desiredIndex.keyPath)
  \/ existingIndex.unique # OrFalse(desiredIndex.unique)
  \/ existingIndex.multiEntry # OrFalse(desiredIndex.multiEntry)

\* a fault: a changed index is added before the old one is deleted
DesiredIndexChangesAddFirst(existingStore, storeName, desiredIndex) ==
  IF desiredIndex.name \notin DOMAIN existingStore.indexes
  THEN << IndexAdd(storeName, desiredIndex) >>
  ELSE IF IndexChanged(existingStore.indexes[desiredIndex.name], desiredIndex)
  THEN << IndexAdd(storeName, desiredIndex), IndexDelete(storeName, desiredIndex.name) >>
  ELSE <<>>

\* the changes one desired index contributes
DesiredIndexChanges(existingStore, storeName, desiredIndex) ==
  IF desiredIndex.name \notin DOMAIN existingStore.indexes
  THEN << IndexAdd(storeName, desiredIndex) >>
  ELSE IF IndexChanged(existingStore.indexes[desiredIndex.name], desiredIndex)
  THEN << IndexDelete(storeName, desiredIndex.name), IndexAdd(storeName, desiredIndex) >>
  ELSE <<>>

\* the existing indexes the desired store does not declare, in existing order
RemovedIndexes(existingStore, desiredStore) ==
  SelectSeq(SortedIndexNames(DOMAIN existingStore.indexes),
            LAMBDA n : n \notin {desiredStore.indexes[i].name :
                                   i \in 1..Len(desiredStore.indexes)})

IndexDeletes(storeName, removed) ==
  [i \in 1..Len(removed) |-> IndexDelete(storeName, removed[i])]

IndexChanges(existingStore, desiredStore) ==
  Flatten([i \in 1..Len(desiredStore.indexes) |->
             DesiredIndexChanges(existingStore, desiredStore.name, desiredStore.indexes[i])])
  \o IndexDeletes(desiredStore.name, RemovedIndexes(existingStore, desiredStore))

\* the safe changes one desired store contributes
SafeChangesOf(existing, d) ==
  IF d.name \notin DOMAIN existing
  THEN << [type |-> "store_add", storeName |-> d.name] >>
  ELSE IF ~keyPathEquals(existing[d.name].keyPath, d.keyPath) THEN <<>>
  ELSE IndexChanges(existing[d.name], d)

\* the dangerous change one desired store contributes
DangerousChangesOf(existing, d) ==
  IF d.name \in DOMAIN existing /\ ~keyPathEquals(existing[d.name].keyPath, d.keyPath)
  THEN << [type |-> "keypath_change", storeName |-> d.name,
           oldKeyPath |-> existing[d.name].keyPath, newKeyPath |-> d.keyPath] >>
  ELSE <<>>

\* the stores of existing that desired does not have, in existing's order
DeletedStores(existing, desired) ==
  SelectSeq(SortedStoreNames(DOMAIN existing), LAMBDA n : n \notin DesiredNames(desired))

StoreDeletes(deleted) ==
  [i \in 1..Len(deleted) |-> [type |-> "store_delete", storeName |-> deleted[i]]]

\* a fault: hasChanges looks at the safe list alone
SchemaChangesSafeOnly(safe, dangerous) ==
  [safe |-> safe, dangerous |-> dangerous, hasChanges |-> Len(safe) > 0]

SchemaChanges(safe, dangerous) ==
  [safe |-> safe, dangerous |-> dangerous,
   hasChanges |-> Len(safe) > 0 \/ Len(dangerous) > 0]

detectSchemaChanges(existing, desired) ==
  SchemaChanges(
    Flatten([i \in 1..Len(desired) |-> SafeChangesOf(existing, desired[i])]),
    Flatten([i \in 1..Len(desired) |-> DangerousChangesOf(existing, desired[i])])
      \o StoreDeletes(DeletedStores(existing, desired)))

(* ------------------------------ errors --------------------------------- *)

NoError == [kind |-> "none", stores |-> {}, migration |-> 0]

DuplicateStoreError(storeName) ==
  [kind |-> "DuplicateStoreName", stores |-> {storeName}, migration |-> 0]

DuplicateMigrationError(name) ==
  [kind |-> "DuplicateMigrationName", stores |-> {}, migration |-> name]

VersionRequiredError == [kind |-> "VersionRequired", stores |-> {}, migration |-> 0]

\* "Dangerous schema changes detected:" followed by one line per change,
\* each line quoting the change's store name
DangerousChangesError(dangerous) ==
  [kind |-> "DangerousSchemaChanges",
   stores |-> {dangerous[i].storeName : i \in 1..Len(dangerous)},
   migration |-> 0]

\* the engine refuses an open below the persisted version
VersionError == [kind |-> "VersionError", stores |-> {}, migration |-> 0]

\* the engine's failure of an open whose upgrade transaction was aborted
AbortError == [kind |-> "AbortError", stores |-> {}, migration |-> 0]

(* --------------------------- version detection ------------------------- *)

\* indexedDB.open(dbName) with no version: null when the database does not exist
openDatabaseForSchemaRead(persisted) ==
  IF persisted.version = 0 THEN <<>> ELSE <<persisted>>

\* the names in the ledger store of an open connection
getAppliedMigrations(idb) == IF idb.history THEN idb.ledger ELSE {}

AutoVersion(err, version, changes, needsUpgrade) ==
  [err |-> err, version |-> version, changes |-> changes, needsUpgrade |-> needsUpgrade]

\* a fault: the removed-store loop drops every store_delete, whatever the policy
AutoRemainingDangerousAnyPolicy(dangerous, removedStoreStrategy) ==
  SelectSeq(dangerous, LAMBDA c : c.type # "store_delete")

\* the dangerous changes the removed-store loop of determineAutoVersion keeps
AutoRemainingDangerous(dangerous, removedStoreStrategy) ==
  SelectSeq(dangerous,
            LAMBDA c : ~(c.type = "store_delete" /\ removedStoreStrategy = "preserve"))

\* the store_rename changes that loop pushes to the safe list
AutoRenames(dangerous, removedStoreStrategy, currentVersion) ==
  Flatten([i \in 1..Len(dangerous) |->
             IF dangerous[i].type = "store_delete" /\ removedStoreStrategy = "preserve"
             THEN << [type |-> "store_rename", oldName |-> dangerous[i].storeName,
                      newName |-> BackupName(dangerous[i].storeName, currentVersion)] >>
             ELSE <<>>])

\* a fault: the remaining dangerous changes are ignored
AutoDecideIgnoresDangerous(currentVersion, safe, remainingDangerous) ==
  AutoVersion(NoError, currentVersion + 1,
              << [safe |-> safe, dangerous |-> remainingDangerous, hasChanges |-> TRUE] >>,
              TRUE)

\* determineAutoVersion once the dangerous changes are processed
AutoDecide(currentVersion, safe, remainingDangerous) ==
  IF Len(remainingDangerous) > 0
  THEN AutoVersion(DangerousChangesError(remainingDangerous), currentVersion, <<>>, FALSE)
  ELSE AutoVersion(NoError, currentVersion + 1,
                   << [safe |-> safe, dangerous |-> remainingDangerous, hasChanges |-> TRUE] >>,
                   TRUE)

\* determineAutoVersion once the existing database is diffed
AutoFromChanges(currentVersion, changes, removedStoreStrategy) ==
  IF ~changes.hasChanges
  THEN AutoVersion(NoError, currentVersion, <<>>, FALSE)
  ELSE AutoDecide(currentVersion,
                  changes.safe \o AutoRenames(changes.dangerous, removedStoreStrategy,
                                              currentVersion),
                  AutoRemainingDangerous(changes.dangerous, removedStoreStrategy))

\* determineAutoVersion once the probe connection answered
AutoFromProbe(existingDb, stores, removedStoreStrategy) ==
  IF existingDb = <<>>
  THEN AutoVersion(NoError, 1, <<>>, TRUE)
  ELSE AutoFromChanges(existingDb[1].version,
                       detectSchemaChanges(readExistingSchema(existingDb[1]),
                                           toDesiredSchema(stores)),
                       removedStoreStrategy)

determineAutoVersion(persisted, stores, removedStoreStrategy) ==
  AutoFromProbe(openDatabaseForSchemaRead(persisted), stores, removedStoreStrategy)

(* ------------------------------ migrations ----------------------------- *)

\* what a migration body does when called: "ok" returns, "throw" throws,
\* "asyncResolve" / "asyncReject" return a promise that settles later.
\* A migration of a store definition is [name |-> n]; its body is opaque
\* and what it does is drawn when the upgrade calls it.
MigrationBodies == {"ok", "throw", "asyncResolve", "asyncReject"}

\* Array.prototype.sort((a, b) => a.name.localeCompare(b.name)), by
\* selection: the first position of ms holding a least name
FirstLeast(ms) ==
  CHOOSE i \in 1..Len(ms) :
    /\ \A j \in 1..Len(ms) : ms[i].name <= ms[j].name
    /\ \A j \in 1..(i - 1) : ms[j].name # ms[i].name

Without(ms, i) == SubSeq(ms, 1, i - 1) \o SubSeq(ms, i + 1, Len(ms))

\* a fault: the array is left in the order of declaration
Unsorted(ms) == ms

RECURSIVE SortByName(_)
SortFrom(ms, i) == <<ms[i]>> \o SortByName(Without(ms, i))

SortByName(ms) == IF ms = <<>> THEN <<>> ELSE SortFrom(ms, FirstLeast(ms))

\* the positions of allMigrations whose name was seen before
SeenBefore(allMigrations) ==
  {j \in 1..Len(allMigrations) :
     \E i \in 1..(j - 1) : allMigrations[i].name = allMigrations[j].name}

Least(S) == CHOOSE j \in S : \A k \in S : j <= k

\* a fault: duplicate names are not looked for
CollectFromUnchecked(allMigrations, dups) ==
  [err |-> NoError, migrations |-> SortByName(allMigrations)]

CollectFrom(allMigrations, dups) ==
  IF dups # {}
  THEN [err |-> DuplicateMigrationError(allMigrations[Least(dups)].name),
        migrations |-> <<>>]
  ELSE [err |-> NoError, migrations |-> SortByName(allMigrations)]

DeclaredMigrations(stores) == Flatten([i \in 1..Len(stores) |-> stores[i].migrations])

collectMigrations(stores) ==
  CollectFrom(DeclaredMigrations(stores), SeenBefore(DeclaredMigrations(stores)))

filterPendingMigrations(allMigrations, appliedMigrations) ==
  SortByName(SelectSeq(allMigrations, LAMBDA m : m.name \notin appliedMigrations))

(* --------------------------- upgrade executor -------------------------- *)

\* The working state of an upgrade transaction: the database as the
\* transaction sees it, the requests queued against it whose success
\* callbacks have not run yet, whether an engine call threw, and the steps
\* applySafeChanges has taken, in order.
Working(persisted, version) ==
  [version |-> version, stores |-> persisted.stores, history |-> persisted.history,
   ledger |-> persisted.ledger, requests |-> <<>>, threw |-> FALSE, steps |-> <<>>]

\* a step of applySafeChanges: the change it serves and what was done for it
Step(type, storeName, detail) ==
  [type |-> type, storeName |-> storeName, detail |-> detail]

Log(w, step) == IF w.threw THEN w ELSE [w EXCEPT !.steps = Append(@, step)]

\* IDBDatabase.createObjectStore: ConstraintError when the name exists
createObjectStore(w, name, keyPath) ==
  IF w.threw THEN w
  ELSE IF name \in DOMAIN w.stores THEN [w EXCEPT !.threw = TRUE]
  ELSE [w EXCEPT !.stores = MapPut(@, name,
                    [keyPath |-> keyPath, indexes |-> EmptyMap, records |-> {}])]

\* IDBDatabase.deleteObjectStore: NotFoundError when the name is missing
deleteObjectStore(w, name) ==
  IF w.threw THEN w
  ELSE IF name \notin DOMAIN w.stores THEN [w EXCEPT !.threw = TRUE]
  ELSE [w EXCEPT !.stores = MapRemove(@, name)]

\* tx.objectStore(name).createIndex(indexName, keyPath, {unique, multiEntry})
createIndex(w, name, indexName, keyPath, unique, multiEntry) ==
  IF w.threw THEN w
  ELSE IF name \notin DOMAIN w.stores THEN [w EXCEPT !.threw = TRUE]
  ELSE IF indexName \in DOMAIN w.stores[name].indexes THEN [w EXCEPT !.threw = TRUE]
  ELSE [w EXCEPT !.stores[name].indexes = MapPut(@, indexName,
                    [keyPath |-> keyPath, unique |-> unique, multiEntry |-> multiEntry])]

\* a fault: deleteIndex leaves the index in place
deleteIndexKeeps(w, name, indexName) == w

\* tx.objectStore(name).deleteIndex(indexName)
deleteIndex(w, name, indexName) ==
  IF w.threw THEN w
  ELSE IF name \notin DOMAIN w.stores THEN [w EXCEPT !.threw = TRUE]
  ELSE IF indexName \notin DOMAIN w.stores[name].indexes THEN [w EXCEPT !.threw = TRUE]
  ELSE [w EXCEPT !.stores[name].indexes = MapRemove(@, indexName)]

\* db.createObjectStore(store.name, ...) followed by createIndex per declared index
RECURSIVE CreateIndexes(_, _, _, _)
CreateIndexes(w, name, indexes, i) ==
  IF i > Len(indexes) THEN w
  ELSE CreateIndexes(
         createIndex(w, name, indexes[i].name, indexes[i].keyPath,
                     OrFalse(indexes[i].unique), OrFalse(indexes[i].multiEntry)),
         name, indexes, i + 1)

\* a fault: the store is created without its indexes
CreateDeclaredStoreNoIndexes(w, store) == createObjectStore(w, store.name, store.keyPath)

CreateDeclaredStore(w, store) ==
  CreateIndexes(createObjectStore(w, store.name, store.keyPath), store.name, store.indexes, 1)

RECURSIVE CreateDeclaredStores(_, _, _)
CreateDeclaredStores(w, stores, i) ==
  IF i > Len(stores) THEN w
  ELSE CreateDeclaredStores(CreateDeclaredStore(w, stores[i]), stores, i + 1)

\* one store_rename of applySafeChanges: read the old store's metadata,
\* queue getAll (the request carries the records it will deliver), then
\* delete the old store
GetAllRequest(change, oldStore) ==
  [oldName |-> change.oldName, newName |-> change.newName, keyPath |-> oldStore.keyPath,
   indexes |-> oldStore.indexes, records |-> oldStore.records]

RenameStore(w, change) ==
  IF w.threw THEN w
  ELSE IF change.oldName \notin DOMAIN w.stores THEN [w EXCEPT !.threw = TRUE]
  ELSE Log(deleteObjectStore(
             Log([w EXCEPT !.requests =
                              Append(@, GetAllRequest(change, w.stores[change.oldName]))],
                 Step("store_rename", change.oldName, "getAll")),
             change.oldName),
           Step("store_rename", change.oldName, "deleteObjectStore"))

RECURSIVE RenameStores(_, _, _)
RenameStores(w, renameChanges, i) ==
  IF i > Len(renameChanges) THEN w
  ELSE RenameStores(RenameStore(w, renameChanges[i]), renameChanges, i + 1)

\* the switch over the other change types
CreateFound(w, found) == IF found = <<>> THEN w ELSE CreateDeclaredStore(w, found[1])

\* a fault: index_delete changes are not applied
ApplyChangeNoIndexDelete(w, change, stores) ==
  IF change.type = "store_add"
  THEN CreateFound(w, SelectSeq(stores, LAMBDA s : s.name = change.storeName))
  ELSE IF change.type = "index_add"
  THEN createIndex(w, change.storeName, change.indexName, change.index.keyPath,
                   OrFalse(change.index.unique), OrFalse(change.index.multiEntry))
  ELSE w

ApplyChange(w, change, stores) ==
  IF change.type = "store_add"
  THEN Log(CreateFound(w, SelectSeq(stores, LAMBDA s : s.name = change.storeName)),
           Step("store_add", change.storeName, ""))
  ELSE IF change.type = "index_add"
  THEN Log(createIndex(w, change.storeName, change.indexName, change.index.keyPath,
                       OrFalse(change.index.unique), OrFalse(change.index.multiEntry)),
           Step("index_add", change.storeName, change.indexName))
  ELSE IF change.type = "index_delete"
  THEN Log(deleteIndex(w, change.storeName, change.indexName),
           Step("index_delete", change.storeName, change.indexName))
  ELSE w

\* a fault: the changes are applied kind by kind: stores, index additions,
\* index deletions
RECURSIVE ApplyEach(_, _, _, _)
ApplyEach(w, changes, stores, i) ==
  IF i > Len(changes) THEN w
  ELSE ApplyEach(ApplyChange(w, changes[i], stores), changes, stores, i + 1)

ApplyChangesByKind(w, changes, stores, i) ==
  ApplyEach(w,
            SelectSeq(changes, LAMBDA c : c.type = "store_add")
              \o SelectSeq(changes, LAMBDA c : c.type = "index_add")
              \o SelectSeq(changes, LAMBDA c : c.type = "index_delete"),
            stores, 1)

RECURSIVE ApplyChanges(_, _, _, _)
ApplyChanges(w, changes, stores, i) ==
  IF i > Len(changes) THEN w
  ELSE ApplyChanges(ApplyChange(w, changes[i], stores), changes, stores, i + 1)

applySafeChanges(w, changes, stores) ==
  ApplyChanges(RenameStores(w, SelectSeq(changes, LAMBDA c : c.type = "store_rename"), 1),
               changes, stores, 1)

\* getAllRequest.onsuccess of a rename: create the new store with the
\* captured keyPath and indexes and put every record delivered
RECURSIVE CopyIndexes(_, _, _, _, _)
CopyIndexes(w, name, indexes, order, i) ==
  IF i > Len(order) THEN w
  ELSE CopyIndexes(
         createIndex(w, name, order[i], indexes[order[i]].keyPath,
                     indexes[order[i]].unique, indexes[order[i]].multiEntry),
         name, indexes, order, i + 1)

\* a fault: the records are not copied
PutRecordsNone(w, name, records) == w

PutRecords(w, name, records) ==
  IF w.threw THEN w ELSE [w EXCEPT !.stores[name].records = records]

RenameOnSuccess(w, request) ==
  Log(PutRecords(
        CopyIndexes(createObjectStore(w, request.newName, request.keyPath),
                    request.newName, request.indexes,
                    SortedIndexNames(DOMAIN request.indexes), 1),
        request.newName, request.records),
      Step("store_rename", request.oldName, "onsuccess"))

\* the ledger store helpers
ensureSchemaHistoryStore(w) == IF w.threw THEN w ELSE [w EXCEPT !.history = TRUE]

initializeSchemaHistory(w) == w

\* a fault: the ledger is rewritten to hold the new name alone
recordMigrationAppliedAlone(w, name) == [w EXCEPT !.ledger = {name}]

recordMigrationApplied(w, name) == [w EXCEPT !.ledger = @ \cup {name}]

Event(ev, name) == [ev |-> ev, name |-> name]

\* the loop over pendingMigrations; acc holds the working state, the
\* promises returned so far, the events so far and the migration that threw
RECURSIVE RunMigrations(_, _, _, _)
\* a fault: a throwing migration is skipped, the loop goes on without abort
RunMigrationNoAbort(pendingMigrations, up, i, acc, name, body) ==
  IF body = "throw"
  THEN RunMigrations(pendingMigrations, up, i + 1,
         [acc EXCEPT !.trace = @ \o << Event("up", name), Event("throw", name) >>])
  ELSE RunMigrations(pendingMigrations, up, i + 1,
         [acc EXCEPT
            !.w = recordMigrationApplied(@, name),
            !.trace = @ \o << Event("up", name), Event("return", name),
                              Event("record", name) >>])

RunMigration(pendingMigrations, up, i, acc, name, body) ==
  IF body = "throw"
  THEN [acc EXCEPT !.trace = @ \o << Event("up", name), Event("throw", name),
                                     Event("abort", name) >>,
                   !.threw = <<name>>]
  ELSE RunMigrations(pendingMigrations, up, i + 1,
         [acc EXCEPT
            !.w = recordMigrationApplied(@, name),
            !.promises = IF body \in {"asyncResolve", "asyncReject"}
                         THEN @ \cup {[name |-> name, up |-> body]}
                         ELSE @,
            !.trace = @ \o << Event("up", name),
                              Event(IF body \in {"asyncResolve", "asyncReject"}
                                    THEN "promise" ELSE "return", name),
                              Event("record", name) >>])

RunMigrations(pendingMigrations, up, i, acc) ==
  IF i > Len(pendingMigrations) THEN acc
  ELSE RunMigration(pendingMigrations, up, i, acc, pendingMigrations[i].name,
                    up[pendingMigrations[i].name])

\* handleUpgrade from the loop over pendingMigrations on; an engine call
\* that threw before has ended the handler
MigrationLoop(w, pendingMigrations, up) ==
  IF w.threw
  THEN [w |-> w, promises |-> {}, trace |-> <<>>, threw |-> <<>>]
  ELSE RunMigrations(pendingMigrations, up, 1,
                     [w |-> w, promises |-> {}, trace |-> <<>>, threw |-> <<>>])

\* a fault: the safe changes of an existing database are not applied
StructuralPhaseFreshOnly(w, oldVersion, stores, autoChanges) ==
  IF oldVersion = 0
  THEN initializeSchemaHistory(CreateDeclaredStores(w, stores, 1))
  ELSE w

\* handleUpgrade up to the loop over pendingMigrations
StructuralPhase(w, oldVersion, stores, autoChanges) ==
  IF oldVersion = 0
  THEN initializeSchemaHistory(CreateDeclaredStores(w, stores, 1))
  ELSE IF autoChanges # <<>> /\ Len(autoChanges[1].safe) > 0
  THEN applySafeChanges(w, autoChanges[1].safe, stores)
  ELSE w

\* up[name] is what the body of migration `name` does in this call
handleUpgrade(w, oldVersion, stores, pendingMigrations, up, autoChanges) ==
  MigrationLoop(StructuralPhase(ensureSchemaHistoryStore(w), oldVersion, stores, autoChanges),
                pendingMigrations, up)

(* --------------------------- initialization ---------------------------- *)

Resolution(err, version, autoChanges, appliedMigrations, warning) ==
  [err |-> err, version |-> version, autoChanges |-> autoChanges,
   appliedMigrations |-> appliedMigrations, warning |-> warning]

\* the applied names the auto strategy reads
AutoApplied(autoResult, existingDb) ==
  IF autoResult.version > 1 /\ existingDb # <<>>
  THEN getAppliedMigrations(existingDb[1])
  ELSE {}

\* a fault: the bump for pending migrations skips a version
AutoBumpTwo(autoResult, pendingCheck) ==
  IF Len(pendingCheck) > 0 /\ ~autoResult.needsUpgrade
  THEN autoResult.version + 2
  ELSE autoResult.version

\* the version bump for pending migrations
AutoBump(autoResult, pendingCheck) ==
  IF Len(pendingCheck) > 0 /\ ~autoResult.needsUpgrade
  THEN autoResult.version + 1
  ELSE autoResult.version

AutoResolution(autoResult, appliedMigrations, allMigrations) ==
  IF autoResult.err # NoError
  THEN Resolution(autoResult.err, 0, <<>>, {}, <<>>)
  ELSE Resolution(NoError,
                  AutoBump(autoResult,
                           filterPendingMigrations(allMigrations, appliedMigrations)),
                  autoResult.changes, appliedMigrations, <<>>)

AutoResolve(autoResult, existingDb, allMigrations) ==
  AutoResolution(autoResult, AutoApplied(autoResult, existingDb), allMigrations)

\* initializeDatabase, versionStrategy === 'auto', up to the pending calculation
ResolveAuto(persisted, config, allMigrations) ==
  AutoResolve(determineAutoVersion(persisted, config.stores, config.removedStoreStrategy),
              openDatabaseForSchemaRead(persisted), allMigrations)

\* a fault: under the preserve policy the loop keeps no dangerous change at all
ExplicitRemainingDangerousPreserveAll(dangerous, removedStoreStrategy) ==
  SelectSeq(dangerous, LAMBDA c : removedStoreStrategy # "preserve")

\* the dangerous changes the removed-store loop of initializeDatabase keeps
ExplicitRemainingDangerous(dangerous, removedStoreStrategy) ==
  SelectSeq(dangerous,
            LAMBDA c : ~(c.type = "store_delete" /\ removedStoreStrategy = "preserve"))

\* the store_rename changes that loop pushes to the safe list
ExplicitRenames(dangerous, removedStoreStrategy, currentVersion) ==
  Flatten([i \in 1..Len(dangerous) |->
             IF dangerous[i].type = "store_delete" /\ removedStoreStrategy = "preserve"
             THEN << [type |-> "store_rename", oldName |-> dangerous[i].storeName,
                      newName |-> BackupName(dangerous[i].storeName, currentVersion)] >>
             ELSE <<>>])

\* the explicit branch once the dangerous changes are processed; the
\* warning lists the safe changes that the unchanged version defers
ExplicitDecide(version, currentVersion, appliedMigrations, safe, remainingDangerous) ==
  IF Len(remainingDangerous) > 0
  THEN Resolution(DangerousChangesError(remainingDangerous), 0, <<>>, {}, <<>>)
  ELSE Resolution(NoError, version,
                  << [safe |-> safe, dangerous |-> remainingDangerous, hasChanges |-> TRUE] >>,
                  appliedMigrations,
                  IF version <= currentVersion THEN <<safe>> ELSE <<>>)

\* the explicit branch once the existing database is diffed
ExplicitFromChanges(version, currentVersion, appliedMigrations, changes, removedStoreStrategy) ==
  IF ~changes.hasChanges
  THEN Resolution(NoError, version, <<>>, appliedMigrations, <<>>)
  ELSE ExplicitDecide(version, currentVersion, appliedMigrations,
                      changes.safe \o ExplicitRenames(changes.dangerous, removedStoreStrategy,
                                                      currentVersion),
                      ExplicitRemainingDangerous(changes.dangerous, removedStoreStrategy))

\* the explicit branch once the probe connection answered
ExplicitFromProbe(version, existingDb, config) ==
  IF existingDb = <<>> THEN Resolution(NoError, version, <<>>, {}, <<>>)
  ELSE ExplicitFromChanges(version, existingDb[1].version,
                           getAppliedMigrations(existingDb[1]),
                           detectSchemaChanges(readExistingSchema(existingDb[1]),
                                               toDesiredSchema(config.stores)),
                           config.removedStoreStrategy)

\* a fault: a missing version counts as version 1
ResolveExplicitDefaultVersion(persisted, config) ==
  ExplicitFromProbe(IF config.version = <<>> THEN 1 ELSE config.version[1],
                    openDatabaseForSchemaRead(persisted), config)

\* initializeDatabase, versionStrategy === 'explicit', up to the pending calculation
ResolveExplicit(persisted, config) ==
  IF config.version = <<>> THEN Resolution(VersionRequiredError, 0, <<>>, {}, <<>>)
  ELSE ExplicitFromProbe(config.version[1], openDatabaseForSchemaRead(persisted), config)

ResolveVersion(persisted, config, allMigrations) ==
  IF config.versionStrategy = "auto"
  THEN ResolveAuto(persisted, config, allMigrations)
  ELSE ResolveExplicit(persisted, config)

(* --------------------------- configurations ---------------------------- *)

IndexDef(name, unique) ==
  [name |-> name, keyPath |-> Scalar(name), unique |-> unique, multiEntry |-> <<>>]

StoreDef(base, keyPath, indexes) ==
  [name |-> StoreName(base), keyPath |-> keyPath, indexes |-> indexes, migrations |-> <<>>]

UsersPlain == StoreDef("users", Scalar("id"), <<>>)

UsersUniqueEmail == StoreDef("users", Scalar("id"), <<IndexDef("email", <<TRUE>>)>>)

UsersEmail == StoreDef("users", Scalar("id"), <<IndexDef("email", <<>>)>>)

PostsPlain == StoreDef("posts", Scalar("id"), <<>>)

PostsArrayKey == StoreDef("posts", Array(<<"id">>), <<IndexDef("title", <<>>)>>)

\* the stores arrays an open may declare, before migrations are added
SchemaLists ==
  { <<>>, <<UsersPlain>>, <<UsersUniqueEmail>>, <<UsersPlain, PostsPlain>>,
    <<UsersEmail, PostsArrayKey>>, <<UsersPlain, UsersEmail>> }

\* the orders in which addMigration may have been called
Declarations ==
  {d \in UNION {[1..k -> 1..MaxMig] : k \in 0..MaxMig} :
     \/ \A i, j \in 1..Len(d) : i # j => d[i] # d[j]
     \/ d = <<1, 1>>}

Migrations(d) == [i \in 1..Len(d) |-> [name |-> d[i]]]

\* the first k declarations belong to the first store, the rest to the last
addMigration(list, d, k) ==
  [i \in 1..Len(list) |->
     [list[i] EXCEPT !.migrations =
        IF Len(list) = 1 THEN Migrations(d)
        ELSE IF i = 1 THEN Migrations(SubSeq(d, 1, k))
        ELSE IF i = Len(list) THEN Migrations(SubSeq(d, k + 1, Len(d)))
        ELSE <<>>]]

StoreLists ==
  UNION {UNION {{addMigration(list, d, k) : k \in 0..Len(d)} : d \in Declarations} :
           list \in SchemaLists}

\* the auto strategy ignores config.version
Configs ==
  [versionStrategy : {"auto"}, version : {<<>>},
   removedStoreStrategy : {"error", "preserve"}, stores : StoreLists]
  \cup
  [versionStrategy : {"explicit"}, version : {<<>>} \cup {<<v>> : v \in 1..MaxVersion},
   removedStoreStrategy : {"error", "preserve"}, stores : StoreLists]

Records == {"r1", "r2"}

\* the configurations of the opens of SpecData
DataSchemaLists == { <<PostsPlain>>, <<UsersUniqueEmail, PostsPlain>> }

DataStoreLists ==
  UNION {{addMigration(list, d, Len(d)) : d \in {<<>>, <<1>>}} : list \in DataSchemaLists}

DataConfigs ==
  [versionStrategy : {"auto"}, version : {<<>>},
   removedStoreStrategy : {"error", "preserve"}, stores : DataStoreLists]
  \cup
  [versionStrategy : {"explicit"}, version : {<<v>> : v \in 1..MaxDataVersion},
   removedStoreStrategy : {"error", "preserve"}, stores : DataStoreLists]

(* ------------------------------ state ---------------------------------- *)

VARIABLES
  db,            \* the persisted database
  pc,            \* where the current openDB call is
  config,        \* its SchemaDBConfig; of each store the name, keyPath and indexes,
                 \* which is all that is read after collectMigrations
  declared,      \* the names of its migrations, in the order of declaration
  allMigrations, \* collectMigrations(stores)
  resolved,      \* version, autoChanges, appliedMigrations, pendingMigrations
  tx,            \* the working state of the upgrade transaction
  txState,       \* notStarted, inUpgrade, committed, aborted
  promises,      \* promises returned by migrations, not settled yet
  rejected,      \* the migrations whose promise has rejected
  io,            \* the engine connections the call has requested: "probe", "open"
  trace,         \* what handleUpgrade did, in order
  state,         \* DatabaseState: idb, ready, error
  thrown,        \* the exception openDB threw to its caller
  refused,       \* the configuration openDB threw on
  before,        \* the persisted database when openDB was called
  calls,         \* the store operations invoked on the object openDB returned
  utx,           \* the transaction startTransaction returned
  prior,         \* the call before this one: what it found, declared and reached
  probe          \* the connections openDatabaseForSchemaRead has requested

vars == <<db, pc, config, declared, allMigrations, resolved, tx, txState, promises,
          rejected, io, trace, state, thrown, refused, before, calls, utx, prior, probe>>

\* what the opening path leaves alone
client == <<calls, utx, prior, probe>>

NoConfig ==
  [versionStrategy |-> "none", version |-> <<>>, removedStoreStrategy |-> "error",
   stores |-> <<>>]

NoResolution ==
  [err |-> NoError, version |-> 0, autoChanges |-> <<>>, appliedMigrations |-> {},
   warning |-> <<>>, pendingMigrations |-> <<>>]

NoTransaction == Working(NoDatabase, 0)

InitialState == [idb |-> FALSE, ready |-> FALSE, error |-> NoError]

\* no transaction was started
NoUserTransaction ==
  [status |-> "none", scope |-> {}, base |-> EmptyMap, work |-> EmptyMap,
   queued |-> <<>>, accepted |-> <<>>, event |-> "none", promise |-> "none",
   abortCalled |-> FALSE, commitAfterAbort |-> FALSE, threw |-> FALSE]

NoPrior == [before |-> NoDatabase, config |-> NoConfig, ready |-> FALSE]

\* no probe connection was requested: `seen` holds what each probe resolved
\* with (<<>> is null, <<d>> a connection to the database d), `work` and
\* `aborted` the upgrade transaction of a probe that found no database, and
\* `transactions` the read transactions the probes opened
NoProbe ==
  [phase |-> "none", seen |-> <<>>, work |-> NoTransaction, aborted |-> FALSE,
   transactions |-> {}]

Init ==
  /\ db = NoDatabase
  /\ pc = "idle"
  /\ config = NoConfig
  /\ declared = <<>>
  /\ allMigrations = <<>>
  /\ resolved = NoResolution
  /\ tx = NoTransaction
  /\ txState = "notStarted"
  /\ promises = {}
  /\ rejected = {}
  /\ io = {}
  /\ trace = <<>>
  /\ state = InitialState
  /\ thrown = NoError
  /\ refused = NoConfig
  /\ before = NoDatabase
  /\ calls = <<>>
  /\ utx = NoUserTransaction
  /\ prior = NoPrior
  /\ probe = NoProbe

(* ------------------------------ openDB --------------------------------- *)

DuplicateStores(stores) ==
  {j \in 1..Len(stores) : \E i \in 1..(j - 1) : stores[i].name = stores[j].name}

FirstDuplicateStore(stores, dups) ==
  IF dups = {} THEN <<>> ELSE <<stores[Least(dups)].name>>

\* the synchronous validation of openDB: the exception it throws, if any
Validate(duplicate, collected) ==
  IF duplicate # <<>> THEN DuplicateStoreError(duplicate[1]) ELSE collected.err

\* a fault: openDB itself checks the version of the explicit strategy
openDBThrowsOnMissingVersion(c) ==
  IF c.versionStrategy = "explicit" /\ c.version = <<>>
  THEN VersionRequiredError
  ELSE Validate(FirstDuplicateStore(c.stores, DuplicateStores(c.stores)),
                collectMigrations(c.stores))

openDBThrows(c) ==
  Validate(FirstDuplicateStore(c.stores, DuplicateStores(c.stores)),
           collectMigrations(c.stores))

\* the version the call would ask the engine for stays within the bound
WithinVersions(c, maxVersion) ==
  ResolveVersion(db, c, collectMigrations(c.stores).migrations).version <= maxVersion

\* openDB(config): validate, build the state, start initializeDatabase
openDB(c) ==
  /\ pc = "idle"
  /\ \E collected \in {collectMigrations(c.stores)}, err \in {openDBThrows(c)} :
       /\ IF err # NoError
          THEN /\ thrown' = err
               /\ refused' = c
               /\ pc' = "settled"
               /\ UNCHANGED <<config, declared, allMigrations>>
          ELSE /\ config' = [c EXCEPT !.stores = toDesiredSchema(c.stores)]
               /\ declared' = [i \in 1..Len(DeclaredMigrations(c.stores)) |->
                                 DeclaredMigrations(c.stores)[i].name]
               /\ allMigrations' = collected.migrations
               /\ pc' = "initializing"
               /\ UNCHANGED <<thrown, refused>>
  /\ before' = db
  /\ UNCHANGED <<db, resolved, tx, txState, promises, rejected, io, trace, state>>
  /\ UNCHANGED client

\* the probe connections of initializeDatabase (openDatabaseForSchemaRead):
\* none when the explicit strategy has no version
Probes(c) ==
  IF c.versionStrategy = "explicit" /\ c.version = <<>> THEN {} ELSE {"probe"}

\* initializeDatabase from the resolved version r to the call of
\* openDatabase; a throw is caught and rejects the readiness promise
Initialize(r) ==
  /\ pc = "initializing"
  /\ IF r.err # NoError
     THEN /\ state' = [state EXCEPT !.error = r.err]
          /\ io' = Probes(config)
          /\ pc' = "settled"
          /\ UNCHANGED resolved
     ELSE /\ resolved' =
               [err |-> r.err, version |-> r.version, autoChanges |-> r.autoChanges,
                appliedMigrations |-> r.appliedMigrations, warning |-> r.warning,
                pendingMigrations |->
                  filterPendingMigrations(allMigrations, r.appliedMigrations)]
          /\ io' = Probes(config) \cup {"open"}
          /\ pc' = "opening"
          /\ UNCHANGED state
  /\ UNCHANGED <<db, config, declared, allMigrations, tx, txState, promises, rejected, trace,
                 thrown, refused, before>>

\* initializeDatabase up to the call of openDatabase, its probes answered at once
initializeDatabase ==
  /\ pc = "initializing"
  /\ \E r \in {ResolveVersion(db, config, allMigrations)} : Initialize(r)
  /\ UNCHANGED client

\* openDatabase(name, version, ...) below the persisted version
openDatabaseVersionError ==
  /\ pc = "opening"
  /\ resolved.version < db.version
  /\ state' = [state EXCEPT !.error = VersionError]
  /\ pc' = "settled"
  /\ UNCHANGED <<db, config, declared, allMigrations, resolved, tx, txState, promises, rejected, io, trace,
                 thrown, refused, before>>
  /\ UNCHANGED client

\* a fault: an open at the persisted version runs the pending migrations
\* and records them
openDatabaseRunsMigrations ==
  /\ pc = "opening"
  /\ resolved.version = db.version
  /\ \E h \in {MigrationLoop(Working(db, db.version), resolved.pendingMigrations,
                             [n \in 1..MaxMig |-> "ok"])} :
       /\ db' = [db EXCEPT !.ledger = h.w.ledger]
       /\ trace' = h.trace
  /\ state' = [state EXCEPT !.idb = TRUE, !.ready = TRUE]
  /\ pc' = "settled"
  /\ UNCHANGED <<config, declared, allMigrations, resolved, tx, txState, promises, rejected, io,
                 thrown, refused, before>>
  /\ UNCHANGED client

\* openDatabase at the persisted version: no upgrade, the connection is ready
openDatabaseNoUpgrade ==
  /\ pc = "opening"
  /\ resolved.version = db.version
  /\ state' = [state EXCEPT !.idb = TRUE, !.ready = TRUE]
  /\ pc' = "settled"
  /\ UNCHANGED <<db, config, declared, allMigrations, resolved, tx, txState, promises, rejected, io, trace,
                 thrown, refused, before>>
  /\ UNCHANGED client

\* openDatabase above the persisted version: the engine starts the upgrade
\* transaction and calls handleUpgrade, which runs to its end
onUpgradeNeeded ==
  /\ pc = "opening"
  /\ resolved.version > db.version
  /\ \E up \in [{resolved.pendingMigrations[i].name :
                    i \in 1..Len(resolved.pendingMigrations)} -> MigrationBodies] :
     \E h \in {handleUpgrade(Working(db, resolved.version), db.version, config.stores,
                              resolved.pendingMigrations, up, resolved.autoChanges)} :
           /\ tx' = h.w
           /\ promises' = h.promises
           /\ trace' = h.trace
           /\ txState' = IF h.threw # <<>> \/ h.w.threw THEN "aborted" ELSE "inUpgrade"
  /\ pc' = "upgrading"
  /\ UNCHANGED <<db, config, declared, allMigrations, resolved, rejected, io, state, thrown, refused,
                 before>>
  /\ UNCHANGED client

\* the success callback of the oldest queued getAll request
getAllRequestOnSuccess ==
  /\ pc = "upgrading"
  /\ txState = "inUpgrade"
  /\ tx.requests # <<>>
  /\ \E w \in {RenameOnSuccess([tx EXCEPT !.requests = Tail(@)], Head(tx.requests))} :
         /\ tx' = w
         /\ txState' = IF w.threw THEN "aborted" ELSE "inUpgrade"
  /\ UNCHANGED <<db, pc, config, declared, allMigrations, resolved, promises, rejected, io, trace, state,
                 thrown, refused, before>>
  /\ UNCHANGED client

\* result.catch(...) of a migration's promise: console.error, tx.abort().
\* abort() on a finished transaction throws and changes nothing.
migrationPromiseRejects(m) ==
  /\ m \in promises
  /\ m.up = "asyncReject"
  /\ promises' = promises \ {m}
  /\ rejected' = rejected \cup {m.name}
  /\ txState' = IF txState = "inUpgrade" THEN "aborted" ELSE txState
  /\ UNCHANGED <<db, pc, config, declared, allMigrations, resolved, tx, io, trace, state, thrown,
                 refused, before>>
  /\ UNCHANGED client

migrationPromiseResolves(m) ==
  /\ m \in promises
  /\ m.up = "asyncResolve"
  /\ promises' = promises \ {m}
  /\ UNCHANGED <<db, pc, config, declared, allMigrations, resolved, tx, txState, rejected, io,
                 trace, state, thrown, refused, before>>
  /\ UNCHANGED client

\* the upgrade transaction commits once no request is outstanding
transactionComplete ==
  /\ pc = "upgrading"
  /\ txState = "inUpgrade"
  /\ tx.requests = <<>>
  /\ db' = [version |-> tx.version, stores |-> tx.stores, history |-> tx.history,
            ledger |-> tx.ledger]
  /\ txState' = "committed"
  /\ UNCHANGED <<pc, config, declared, allMigrations, resolved, tx, promises, rejected, io, trace, state, thrown, refused,
                 before>>
  /\ UNCHANGED client

\* openDatabase resolves: state.idb, state.ready, readyResolve()
openDatabaseResolves ==
  /\ pc = "upgrading"
  /\ txState = "committed"
  /\ state' = [state EXCEPT !.idb = TRUE, !.ready = TRUE]
  /\ pc' = "settled"
  /\ UNCHANGED <<db, config, declared, allMigrations, resolved, tx, txState, promises, rejected, io, trace,
                 thrown, refused, before>>
  /\ UNCHANGED client

\* openDatabase rejects after the abort: state.error, readyReject(error)
openDatabaseRejects ==
  /\ pc = "upgrading"
  /\ txState = "aborted"
  /\ state' = [state EXCEPT !.error = AbortError]
  /\ pc' = "settled"
  /\ UNCHANGED <<db, config, declared, allMigrations, resolved, tx, txState, promises, rejected, io, trace,
                 thrown, refused, before>>
  /\ UNCHANGED client

\* close(): the call is over, the next openDB may start
Closing ==
  /\ pc = "settled"
  /\ promises = {}
  /\ pc' = "idle"
  /\ config' = NoConfig
  /\ declared' = <<>>
  /\ allMigrations' = <<>>
  /\ resolved' = NoResolution
  /\ tx' = NoTransaction
  /\ txState' = "notStarted"
  /\ trace' = <<>>
  /\ state' = InitialState
  /\ thrown' = NoError
  /\ refused' = NoConfig
  /\ rejected' = {}
  /\ io' = {}
  /\ before' = NoDatabase
  /\ calls' = <<>>
  /\ utx' = NoUserTransaction
  /\ probe' = NoProbe
  /\ UNCHANGED <<db, promises>>

close == Closing /\ UNCHANGED prior

\* db.<store>.put(record) through the accessor of a ready connection
put(storeName, record) ==
  /\ pc = "settled"
  /\ state.ready
  /\ storeName \in DOMAIN db.stores
  /\ ~isInternalStore(storeName)
  /\ record \notin db.stores[storeName].records
  /\ db' = [db EXCEPT !.stores[storeName].records = @ \cup {record}]
  /\ UNCHANGED <<pc, config, declared, allMigrations, resolved, tx, txState, promises,
                 rejected, io, trace, state, thrown, refused, before>>
  /\ UNCHANGED client

\* the steps of a call after openDB
Run ==
  \/ initializeDatabase
  \/ openDatabaseVersionError
  \/ openDatabaseNoUpgrade
  \/ onUpgradeNeeded
  \/ getAllRequestOnSuccess
  \/ \E m \in promises : migrationPromiseRejects(m)
  \/ \E m \in promises : migrationPromiseResolves(m)
  \/ transactionComplete
  \/ openDatabaseResolves
  \/ openDatabaseRejects
  \/ close

Next ==
  \/ pc = "idle" /\ \E c \in Configs : WithinVersions(c, MaxVersion) /\ openDB(c)
  \/ Run

Spec == Init /\ [][Next]_vars

\* opens that remove and re-create stores holding records
NextData ==
  \/ pc = "idle" /\ \E c \in DataConfigs : WithinVersions(c, MaxDataVersion) /\ openDB(c)
  \/ Run
  \/ \E storeName \in DOMAIN db.stores, record \in Records : put(storeName, record)

SpecData == Init /\ [][NextData]_vars

(* --------------------------- store accessors --------------------------- *)

\* 'Database initialization failed'
InitializationFailedError ==
  [kind |-> "InitializationFailed", stores |-> {}, migration |-> 0]

\* the engine's error for a store the connection does not have
NotFoundError == [kind |-> "NotFoundError", stores |-> {}, migration |-> 0]

\* a fault: the readiness promise counts as fulfilled while it is pending
ReadyPromiseNeverPending(st) ==
  IF ~st.ready /\ st.error # NoError THEN "rejected" ELSE "fulfilled"

\* state.readyPromise: settled by readyResolve() or readyReject(error)
ReadyPromise(st) ==
  IF st.ready THEN "fulfilled"
  ELSE IF st.error # NoError THEN "rejected"
  ELSE "pending"

\* an invocation of a lazy accessor method, suspended at `await getAccessor()`
Call(storeName, record, early) ==
  [storeName |-> storeName, record |-> record, early |-> early, status |-> "awaiting",
   error |-> NoError, delegated |-> FALSE]

\* a fault: a rejected readiness is reported as 'Database initialization failed'
ResumeOwnError(call, st, idb) ==
  IF ReadyPromise(st) = "rejected" \/ ~st.idb
  THEN [call EXCEPT !.status = "rejected", !.error = InitializationFailedError]
  ELSE IF call.storeName \notin DOMAIN idb.stores
  THEN [call EXCEPT !.status = "rejected", !.error = NotFoundError, !.delegated = TRUE]
  ELSE [call EXCEPT !.status = "done", !.delegated = TRUE]

\* getAccessor after the await, then accessor.put(record)
Resume(call, st, idb) ==
  IF ReadyPromise(st) = "rejected"
  THEN [call EXCEPT !.status = "rejected", !.error = st.error]
  ELSE IF ~st.idb
  THEN [call EXCEPT !.status = "rejected", !.error = InitializationFailedError]
  ELSE IF call.storeName \notin DOMAIN idb.stores
  THEN [call EXCEPT !.status = "rejected", !.error = NotFoundError, !.delegated = TRUE]
  ELSE [call EXCEPT !.status = "done", !.delegated = TRUE]

\* db.<store>.put(record) on the object openDB returned, at any time
storeCall(storeName, record) ==
  /\ pc \in {"initializing", "opening", "upgrading", "settled"}
  /\ thrown = NoError
  /\ Len(calls) < MaxCalls
  /\ storeName \in DesiredNames(config.stores)
  /\ calls' = Append(calls, Call(storeName, record, ReadyPromise(state) = "pending"))
  /\ UNCHANGED <<db, pc, config, declared, allMigrations, resolved, tx, txState, promises,
                 rejected, io, trace, state, thrown, refused, before, utx, prior, probe>>

\* the continuation of call i once state.readyPromise has settled
getAccessorResumes(i) ==
  /\ i \in 1..Len(calls)
  /\ calls[i].status = "awaiting"
  /\ ReadyPromise(state) # "pending"
  /\ \E r \in {Resume(calls[i], state, db)} :
       /\ calls' = [calls EXCEPT ![i] = r]
       /\ db' = IF r.status = "done"
                THEN [db EXCEPT !.stores[r.storeName].records = @ \cup {r.record}]
                ELSE db
  /\ UNCHANGED <<pc, config, declared, allMigrations, resolved, tx, txState, promises,
                 rejected, io, trace, state, thrown, refused, before, utx, prior, probe>>

\* opens that fail or succeed while store operations are invoked
CallConfigs ==
  [versionStrategy : {"auto"}, version : {<<>>}, removedStoreStrategy : {"error"},
   stores : DataStoreLists]

NextCalls ==
  \/ pc = "idle" /\ \E c \in CallConfigs : WithinVersions(c, MaxVersion) /\ openDB(c)
  \/ initializeDatabase
  \/ openDatabaseNoUpgrade
  \/ onUpgradeNeeded
  \/ \E m \in promises : migrationPromiseRejects(m)
  \/ \E m \in promises : migrationPromiseResolves(m)
  \/ transactionComplete
  \/ openDatabaseResolves
  \/ openDatabaseRejects
  \/ close
  \/ \E storeName \in DesiredNames(config.stores), record \in Records :
       storeCall(storeName, record)
  \/ \E i \in 1..Len(calls) : getAccessorResumes(i)

SpecCalls == Init /\ [][NextCalls]_vars

(* ----------------------------- transactions --------------------------- *)

\* The transaction db.transaction(storeNames, 'readwrite') returns: the
\* records of its stores when it started (base) and as it sees them (work),
\* the requests not executed yet (queued), every request it accepted, its
\* complete or abort event ("none", "pending", "fired"), and of the wrapper
\* the promise commit() returned and what abort() did.
StoreRecords(idb, scope) == [n \in scope |-> idb.stores[n].records]

Operation(storeName, kind, record) ==
  [storeName |-> storeName, kind |-> kind, record |-> record]

OperationKinds == {"put", "add", "delete"}

\* store.add(value) of a key that exists fails with ConstraintError
RequestFails(work, op) == op.kind = "add" /\ op.record \in work[op.storeName]

ExecuteRequest(work, op) ==
  [work EXCEPT ![op.storeName] =
     IF op.kind = "delete" THEN @ \ {op.record} ELSE @ \cup {op.record}]

RECURSIVE Effects(_, _)
Effects(ops, work) ==
  IF ops = <<>> THEN work ELSE Effects(Tail(ops), ExecuteRequest(work, Head(ops)))

\* a fault: the promise of commit() resolves on any event
CommitSettlesResolved(status) == "resolved"

\* tx.oncomplete = () => resolve(); tx.onabort = () => reject(...)
CommitSettles(status) == IF status = "committed" THEN "resolved" ELSE "rejected"

\* startTransaction(storeNames) of a ready database
startTransaction(storeNames) ==
  /\ pc = "settled"
  /\ state.ready
  /\ utx.status = "none"
  /\ storeNames # {}
  /\ storeNames \subseteq {n \in DOMAIN db.stores : ~isInternalStore(n)}
  /\ utx' = [NoUserTransaction EXCEPT
               !.status = "active", !.scope = storeNames,
               !.base = StoreRecords(db, storeNames),
               !.work = StoreRecords(db, storeNames)]
  /\ UNCHANGED <<db, pc, config, declared, allMigrations, resolved, tx, txState, promises,
                 rejected, io, trace, state, thrown, refused, before, calls, prior, probe>>

\* tx.<store>.put(value), add(value), delete(key): the request is queued
transactionOperation(storeName, kind, record) ==
  /\ utx.status = "active"
  /\ storeName \in utx.scope
  /\ Len(utx.accepted) < MaxOps
  /\ utx' = [utx EXCEPT !.queued = Append(@, Operation(storeName, kind, record)),
                        !.accepted = Append(@, Operation(storeName, kind, record))]
  /\ UNCHANGED <<db, pc, config, declared, allMigrations, resolved, tx, txState, promises,
                 rejected, io, trace, state, thrown, refused, before, calls, prior, probe>>

\* the engine executes the oldest queued request; a failed request fires
\* tx.onerror and aborts the transaction
requestExecutes ==
  /\ utx.status = "active"
  /\ utx.queued # <<>>
  /\ utx' = IF RequestFails(utx.work, Head(utx.queued))
            THEN [utx EXCEPT !.status = "aborted", !.queued = <<>>, !.work = utx.base,
                             !.event = "pending",
                             !.promise = IF @ = "pending" THEN "rejected" ELSE @]
            ELSE [utx EXCEPT !.queued = Tail(@),
                             !.work = ExecuteRequest(@, Head(utx.queued))]
  /\ UNCHANGED <<db, pc, config, declared, allMigrations, resolved, tx, txState, promises,
                 rejected, io, trace, state, thrown, refused, before, calls, prior, probe>>

\* the engine commits the transaction once no request is outstanding and
\* the code that queued them has returned to the event loop
transactionAutoCommits ==
  /\ utx.status = "active"
  /\ utx.queued = <<>>
  /\ db' = [db EXCEPT !.stores =
              [n \in DOMAIN @ |->
                 IF n \in utx.scope THEN [@[n] EXCEPT !.records = utx.work[n]] ELSE @[n]]]
  /\ utx' = [utx EXCEPT !.status = "committed", !.event = "pending"]
  /\ UNCHANGED <<pc, config, declared, allMigrations, resolved, tx, txState, promises,
                 rejected, io, trace, state, thrown, refused, before, calls, prior, probe>>

\* the complete or abort event is dispatched to the handlers attached by then
transactionEventFires ==
  /\ utx.event = "pending"
  /\ utx' = [utx EXCEPT !.event = "fired",
                        !.promise = IF @ = "pending" THEN CommitSettles(utx.status) ELSE @]
  /\ UNCHANGED <<db, pc, config, declared, allMigrations, resolved, tx, txState, promises,
                 rejected, io, trace, state, thrown, refused, before, calls, prior, probe>>

\* commit(): a new promise; the handlers are attached now
commit ==
  /\ utx.status # "none"
  /\ utx.promise = "none"
  /\ utx' = [utx EXCEPT !.promise = "pending", !.commitAfterAbort = utx.abortCalled]
  /\ UNCHANGED <<db, pc, config, declared, allMigrations, resolved, tx, txState, promises,
                 rejected, io, trace, state, thrown, refused, before, calls, prior, probe>>

\* abort(): tx.abort(), which throws on a finished transaction
abort ==
  /\ utx.status # "none"
  /\ ~utx.abortCalled
  /\ ~utx.threw
  /\ utx' = IF utx.status = "active"
            THEN [utx EXCEPT !.status = "aborted", !.queued = <<>>, !.work = utx.base,
                             !.event = "pending", !.abortCalled = TRUE]
            ELSE [utx EXCEPT !.threw = TRUE]
  /\ UNCHANGED <<db, pc, config, declared, allMigrations, resolved, tx, txState, promises,
                 rejected, io, trace, state, thrown, refused, before, calls, prior, probe>>

\* a ready database with two stores, written through transactions
TransactionConfigs ==
  [versionStrategy : {"auto"}, version : {<<>>}, removedStoreStrategy : {"error"},
   stores : {addMigration(<<UsersPlain, PostsPlain>>, <<>>, 0)}]

NextTransactions ==
  \/ pc = "idle" /\ \E c \in TransactionConfigs : WithinVersions(c, MaxVersion) /\ openDB(c)
  \/ initializeDatabase
  \/ openDatabaseNoUpgrade
  \/ onUpgradeNeeded
  \/ transactionComplete
  \/ openDatabaseResolves
  \/ close
  \/ \E storeNames \in SUBSET DOMAIN db.stores : startTransaction(storeNames)
  \/ \E storeName \in utx.scope, kind \in OperationKinds, record \in Records :
       transactionOperation(storeName, kind, record)
  \/ requestExecutes
  \/ transactionAutoCommits
  \/ transactionEventFires
  \/ commit
  \/ abort

SpecTransactions == Init /\ [][NextTransactions]_vars

\* the engine runs on its own: a queued request is executed, a transaction
\* with no outstanding request commits, and its event is dispatched. What
\* the caller does (queue, commit(), abort(), close()) is left to the caller.
SpecTransactionsFair ==
  /\ Init
  /\ [][NextTransactions]_vars
  /\ WF_vars(requestExecutes)
  /\ WF_vars(transactionAutoCommits)
  /\ WF_vars(transactionEventFires)

\* opens under the auto strategy that add and remove indexes and stores
RoundTripSchemaLists ==
  { <<UsersPlain>>, <<UsersEmail>>, <<UsersUniqueEmail>>, <<UsersPlain, PostsPlain>>,
    <<UsersEmail, PostsPlain>> }

RoundTripConfigs ==
  [versionStrategy : {"auto"}, version : {<<>>}, removedStoreStrategy : {"error"},
   stores : {addMigration(list, <<>>, 0) : list \in RoundTripSchemaLists}]

\* close(), remembering the call that ends for the next one
closeRemembering ==
  /\ Closing
  /\ prior' = [before |-> before, config |-> config, ready |-> state.ready]

NextRoundTrip ==
  \/ pc = "idle" /\ \E c \in RoundTripConfigs : WithinVersions(c, MaxVersion) /\ openDB(c)
  \/ initializeDatabase
  \/ openDatabaseNoUpgrade
  \/ onUpgradeNeeded
  \/ transactionComplete
  \/ openDatabaseResolves
  \/ closeRemembering

SpecRoundTrip == Init /\ [][NextRoundTrip]_vars

(* ------------------------------ probing -------------------------------- *)

\* The probes of initializeDatabase, connection by connection. A probe reads
\* the version, the schema and the ledger through its connection; while the
\* connection is open no upgrade of the database can start, so what it reads
\* is what the database held when the connection was opened.

\* whether initializeDatabase awaits another openDatabaseForSchemaRead: the
\* explicit strategy asks once, the auto strategy once in
\* determineAutoVersion and again when the version it returned is above 1
NeedsProbe(c, seen) ==
  IF c.versionStrategy = "explicit" THEN c.version # <<>> /\ Len(seen) = 0
  ELSE \/ Len(seen) = 0
       \/ /\ Len(seen) = 1
          /\ AutoFromProbe(seen[1], c.stores, c.removedStoreStrategy).err = NoError
          /\ AutoFromProbe(seen[1], c.stores, c.removedStoreStrategy).version > 1

\* the version resolution of initializeDatabase on what its probes resolved with
ResolveFromProbes(seen, c, migrations) ==
  IF c.versionStrategy = "auto"
  THEN AutoResolve(AutoFromProbe(seen[1], c.stores, c.removedStoreStrategy),
                   IF Len(seen) > 1 THEN seen[2] ELSE <<>>, migrations)
  ELSE IF c.version = <<>> THEN Resolution(VersionRequiredError, 0, <<>>, {}, <<>>)
  ELSE ExplicitFromProbe(c.version[1], seen[1], c)

\* a fault: the probe lets the transaction that creates the database go on
ProbeUpgradeNeededNoAbort(p) ==
  [p EXCEPT !.phase = "finishing", !.seen = Append(@, <<>>)]

\* request.onupgradeneeded of the probe: request.transaction?.abort(); resolve(null)
ProbeUpgradeNeeded(p) ==
  [p EXCEPT !.phase = "finishing", !.aborted = TRUE, !.seen = Append(@, <<>>)]

\* the transactions of readExistingSchema: one per store that is not
\* internal, each ended by tx.abort()
ReadTransactions(idb) ==
  {[storeName |-> n, status |-> "aborted"] : n \in DOMAIN readExistingSchema(idb)}

\* indexedDB.open(dbName) without a version: a connection to the database as
\* it is, or, when there is none, the upgrade transaction that creates it
probeOpen ==
  /\ pc = "initializing"
  /\ probe.phase \in {"none", "closed"}
  /\ NeedsProbe(config, probe.seen)
  /\ probe' = IF db.version = 0
              THEN [probe EXCEPT !.phase = "upgradeneeded", !.work = Working(db, 1),
                                 !.aborted = FALSE]
              ELSE [probe EXCEPT !.phase = "open", !.seen = Append(@, <<db>>)]
  /\ UNCHANGED <<db, pc, config, declared, allMigrations, resolved, tx, txState, promises,
                 rejected, io, trace, state, thrown, refused, before, calls, utx, prior>>

probeOnUpgradeNeeded ==
  /\ probe.phase = "upgradeneeded"
  /\ probe' = ProbeUpgradeNeeded(probe)
  /\ UNCHANGED <<db, pc, config, declared, allMigrations, resolved, tx, txState, promises,
                 rejected, io, trace, state, thrown, refused, before, calls, utx, prior>>

\* the engine ends the probe's upgrade transaction: aborted, the database
\* is not created; otherwise it commits and the database exists
probeTransactionEnds ==
  /\ probe.phase = "finishing"
  /\ db' = IF probe.aborted THEN db
           ELSE [version |-> probe.work.version, stores |-> probe.work.stores,
                 history |-> probe.work.history, ledger |-> probe.work.ledger]
  /\ probe' = [probe EXCEPT !.phase = "closed"]
  /\ UNCHANGED <<pc, config, declared, allMigrations, resolved, tx, txState, promises,
                 rejected, io, trace, state, thrown, refused, before, calls, utx, prior>>

\* the probe connection answered: readExistingSchema (the first probe of a
\* call) and existingDb.close()
probeReads ==
  /\ probe.phase = "open"
  /\ probe' = [probe EXCEPT !.phase = "closed",
                            !.transactions = IF Len(probe.seen) = 1
                                             THEN @ \cup ReadTransactions(probe.seen[1][1])
                                             ELSE @]
  /\ UNCHANGED <<db, pc, config, declared, allMigrations, resolved, tx, txState, promises,
                 rejected, io, trace, state, thrown, refused, before, calls, utx, prior>>

\* initializeDatabase once its probes have answered
initializeAfterProbes ==
  /\ pc = "initializing"
  /\ probe.phase \in {"none", "closed"}
  /\ ~NeedsProbe(config, probe.seen)
  /\ \E r \in {ResolveFromProbes(probe.seen, config, allMigrations)} : Initialize(r)
  /\ UNCHANGED client

ProbeSchemaLists == { <<UsersPlain>>, <<UsersEmail, PostsPlain>> }

ProbeStoreLists ==
  UNION {{addMigration(list, d, Len(d)) : d \in {<<>>, <<1>>}} : list \in ProbeSchemaLists}

ProbeConfigs ==
  [versionStrategy : {"auto"}, version : {<<>>},
   removedStoreStrategy : {"error", "preserve"}, stores : ProbeStoreLists]
  \cup
  [versionStrategy : {"explicit"}, version : {<<>>} \cup {<<v>> : v \in 1..MaxVersion},
   removedStoreStrategy : {"error", "preserve"}, stores : ProbeStoreLists]

\* the steps of a call whose probes are taken one by one
RunProbing ==
  \/ probeOpen
  \/ probeOnUpgradeNeeded
  \/ probeTransactionEnds
  \/ probeReads
  \/ initializeAfterProbes
  \/ openDatabaseVersionError
  \/ openDatabaseNoUpgrade
  \/ onUpgradeNeeded
  \/ getAllRequestOnSuccess
  \/ \E m \in promises : migrationPromiseRejects(m)
  \/ \E m \in promises : migrationPromiseResolves(m)
  \/ transactionComplete
  \/ openDatabaseResolves
  \/ openDatabaseRejects
  \/ close

NextProbe ==
  \/ pc = "idle" /\ \E c \in ProbeConfigs : WithinVersions(c, MaxVersion) /\ openDB(c)
  \/ RunProbing

SpecProbe == Init /\ [][NextProbe]_vars

(* ------------------------------ two callers ---------------------------- *)

\* the configurations of the other caller
PeerConfigs ==
  [versionStrategy : {"auto"}, version : {<<>>}, removedStoreStrategy : {"error"},
   stores : {<<UsersPlain>>, <<UsersPlain, PostsPlain>>}]

\* openDB(c) of another caller on the same database name, from its probe to
\* the commit of its upgrade and the close() of its connection, while this
\* call holds no connection: between its probes, or between its last probe
\* and its own open request being served
peerOpenDB(c) ==
  /\ pc \in {"initializing", "opening"}
  /\ probe.phase \in {"none", "closed"}
  /\ openDBThrows(c) = NoError
  /\ \E r \in {ResolveVersion(db, c, collectMigrations(c.stores).migrations)} :
       /\ r.err = NoError
       /\ r.version > db.version
       /\ r.version <= MaxVersion
       /\ \E h \in {handleUpgrade(Working(db, r.version), db.version, toDesiredSchema(c.stores),
                                  filterPendingMigrations(collectMigrations(c.stores).migrations,
                                                          r.appliedMigrations),
                                  [n \in 1..MaxMig |-> "ok"], r.autoChanges)} :
            /\ ~h.w.threw
            /\ h.w.requests = <<>>
            /\ db' = [version |-> h.w.version, stores |-> h.w.stores,
                      history |-> h.w.history, ledger |-> h.w.ledger]
  /\ UNCHANGED <<pc, config, declared, allMigrations, resolved, tx, txState, promises,
                 rejected, io, trace, state, thrown, refused, before, calls, utx, prior, probe>>

NextConcurrent ==
  \/ pc = "idle" /\ \E c \in ProbeConfigs : WithinVersions(c, MaxVersion) /\ openDB(c)
  \/ RunProbing
  \/ \E c \in PeerConfigs : peerOpenDB(c)

SpecConcurrent == Init /\ [][NextConcurrent]_vars

(* ------------------------------ properties ----------------------------- *)

\* the positions of trace where the body of a migration was called
Started == {i \in 1..Len(trace) : trace[i].ev = "up"}

StartedNames == {trace[i].name : i \in Started}

Registered == {allMigrations[i].name : i \in 1..Len(allMigrations)}

Throws == {i \in 1..Len(trace) : trace[i].ev = "throw"}

\* the diff of the database as openDB found it against the declared stores
ChangesAtOpen == detectSchemaChanges(readExistingSchema(before), config.stores)

\* the persisted stores, not reserved, that the configuration does not declare
Undeclared ==
  {n \in DOMAIN before.stores : ~isInternalStore(n) /\ n \notin DesiredNames(config.stores)}

\* the non-reserved stores of the persisted database are the declared ones,
\* each with the declared keyPath and exactly the declared indexes
PersistedIsDeclared ==
  /\ {n \in DOMAIN db.stores : ~isInternalStore(n)} = DesiredNames(config.stores)
  /\ \A i \in 1..Len(config.stores) :
       config.stores[i].name \in DOMAIN db.stores =>
         /\ db.stores[config.stores[i].name].keyPath = config.stores[i].keyPath
         /\ DOMAIN db.stores[config.stores[i].name].indexes =
              {config.stores[i].indexes[k].name : k \in 1..Len(config.stores[i].indexes)}
         /\ \A k \in 1..Len(config.stores[i].indexes) :
              config.stores[i].indexes[k].name
                  \in DOMAIN db.stores[config.stores[i].name].indexes =>
                db.stores[config.stores[i].name].indexes[config.stores[i].indexes[k].name]
                  = [keyPath |-> config.stores[i].indexes[k].keyPath,
                     unique |-> OrFalse(config.stores[i].indexes[k].unique),
                     multiEntry |-> OrFalse(config.stores[i].indexes[k].multiEntry)]

\* C1: a migration whose name an earlier committed upgrade recorded in the
\* ledger is never executed again, whatever opens (auto or explicit) follow.
\* The code reads no ledger when the auto strategy finds the database at
\* version 1, so this fails.
C1_AppliedNeverRunsAgain == \A i \in Started : trace[i].name \notin before.ledger

\* C2: within one upgrade the migrations run in ascending order of name,
\* whatever the order of the stores and of the addMigration calls, and once
\* the upgrade has committed every executed name is in the ledger.
C2_AscendingAndRecorded ==
  /\ \A i, j \in Started : i < j => trace[i].name < trace[j].name
  /\ txState = "committed" => StartedNames \subseteq db.ledger

\* two migrations declared in descending order ran in a committed upgrade
C2_Witness ==
  /\ txState = "committed"
  /\ declared = <<2, 1>>
  /\ Cardinality(Started) = 2

\* C3: when a migration body throws, the upgrade transaction is aborted, no
\* later migration is started, the open fails, and nothing the upgrade wrote
\* (the ledger entries of the migrations that ran before) is persisted.
C3_ThrowAbortsUpgrade ==
  \A i \in Throws :
    /\ txState = "aborted"
    /\ \A j \in Started : j < i
    /\ ~state.ready
    /\ pc = "settled" => state.error # NoError
    /\ db = before

\* the second migration threw after the first was recorded, and the open failed
C3_Witness ==
  /\ pc = "settled"
  /\ state.error = AbortError
  /\ \E i \in Throws : \E j \in 1..(i - 1) : trace[j].ev = "record"

\* C4: when the promise a migration returned rejects, then however the
\* rejection interleaves with the completion of the transaction, the upgrade
\* is aborted, the open fails and the ledger holds no name of that upgrade.
\* A rejection after the transaction completed aborts nothing, so this fails.
C4_RejectionAbortsUpgrade ==
  rejected # {} =>
    /\ txState = "aborted"
    /\ ~state.ready
    /\ db.ledger = before.ledger

\* C5: a name is written to the ledger only after its migration succeeded,
\* in the upgrade transaction, before the next body starts. The name of a
\* migration that returned a promise is written while the promise is
\* pending, and stays when it rejects later, so this fails.
C5_RecordedOnlyAfterSuccess ==
  /\ \A i \in 1..Len(trace) :
       trace[i].ev = "record" =>
         /\ i > 1
         /\ trace[i - 1].name = trace[i].name
         /\ trace[i - 1].ev \in {"return", "promise"}
  /\ pc = "upgrading" =>
       \A n \in tx.ledger \ before.ledger :
         /\ n \notin rejected
         /\ \A m \in promises : m.name # n

\* C6: auto strategy, database at version v, the schema unchanged, a
\* registered name missing from the ledger: the target is v + 1 and exactly
\* the migrations absent from the ledger run. At v = 1 the ledger is not
\* read and the recorded migrations run as well, so this fails.
C6_PendingBumpRunsAbsentOnly ==
  ( /\ pc = "upgrading"
    /\ config.versionStrategy = "auto"
    /\ before.version >= 1
    /\ ~ChangesAtOpen.hasChanges
    /\ Registered \ before.ledger # {} )
  => /\ resolved.version = before.version + 1
     /\ Throws = {} => StartedNames = Registered \ before.ledger

\* C7: auto strategy, the persisted schema is the declared one and every
\* registered name is in the ledger (the database a successful open with
\* the same stores and migrations left): the target is the persisted
\* version and there is no upgrade, at every persisted version, 1 included.
\* At version 1 the target is 2, so this fails.
C7_AutoOpenIdempotent ==
  ( /\ pc = "opening"
    /\ config.versionStrategy = "auto"
    /\ before.version >= 1
    /\ ~ChangesAtOpen.hasChanges
    /\ Registered \subseteq before.ledger )
  => resolved.version = before.version

\* C8: auto strategy, no database yet: the target version is 1, and the
\* ready database is at version 1 with every declared store, each with the
\* declared keyPath and exactly the declared indexes, and no other store
\* that is not reserved.
C8_FreshAutoCreatesDeclared ==
  (config.versionStrategy = "auto" /\ before.version = 0) =>
    /\ pc \in {"opening", "upgrading"} => resolved.version = 1
    /\ state.ready => (db.version = 1 /\ PersistedIsDeclared)

\* a fresh database was created with two stores, one with an index
C8_Witness ==
  /\ config.versionStrategy = "auto"
  /\ before.version = 0
  /\ state.ready
  /\ Len(config.stores) = 2
  /\ \E n \in DOMAIN db.stores : db.stores[n].indexes # EmptyMap

\* C9: auto strategy, database at version v, only safe changes (a removed
\* store under the preserve policy being a safe rename): unless a migration
\* fails the open succeeds, and the ready database is at v + 1, its schema
\* apart from reserved stores is the declared one, and a new diff against
\* the declared stores reports no change.
C9_SafeChangesApplied ==
  ( /\ config.versionStrategy = "auto"
    /\ before.version >= 1
    /\ ChangesAtOpen.hasChanges
    /\ \A i \in 1..Len(ChangesAtOpen.dangerous) :
         /\ ChangesAtOpen.dangerous[i].type = "store_delete"
         /\ config.removedStoreStrategy = "preserve" )
  => /\ pc \in {"opening", "upgrading"} => resolved.version = before.version + 1
     /\ (pc = "settled" /\ Throws = {} /\ rejected = {}) => state.ready
     /\ state.ready =>
          /\ db.version = before.version + 1
          /\ PersistedIsDeclared
          /\ ~detectSchemaChanges(readExistingSchema(db), config.stores).hasChanges

\* an upgrade that moved a removed store to its backup and applied another
\* safe change left the database ready
C9_Witness ==
  /\ config.versionStrategy = "auto"
  /\ before.version >= 1
  /\ state.ready
  /\ db.version = before.version + 1
  /\ \E n \in DOMAIN db.stores : isInternalStore(n) /\ n \notin DOMAIN before.stores
  /\ \E i \in 1..Len(ChangesAtOpen.safe) : ChangesAtOpen.safe[i].type # "store_add"

\* C10: under the 'error' policy, when the database holds a store, not
\* reserved, that the configuration does not declare, initialization fails
\* with the error that names every such store; under the auto strategy and
\* under the explicit strategy at any supplied version.
C10_UndeclaredStoresRejected ==
  ( /\ config.removedStoreStrategy = "error"
    /\ \/ config.versionStrategy = "auto"
       \/ config.versionStrategy = "explicit" /\ config.version # <<>>
    /\ pc \in {"opening", "upgrading", "settled"}
    /\ Undeclared # {} )
  => /\ pc = "settled"
     /\ ~state.ready
     /\ state.error.kind = "DangerousSchemaChanges"
     /\ Undeclared \subseteq state.error.stores

\* an explicit open at the persisted version failed, naming both stores
C10_Witness ==
  /\ pc = "settled"
  /\ config.versionStrategy = "explicit"
  /\ config.version = <<before.version>>
  /\ config.removedStoreStrategy = "error"
  /\ Cardinality(Undeclared) = 2
  /\ Undeclared \subseteq state.error.stores

\* the configuration names a strategy and, when explicit, supplies a version
VersionGiven ==
  \/ config.versionStrategy = "auto"
  \/ config.versionStrategy = "explicit" /\ config.version # <<>>

\* a dangerous change is left once the removed-store policy is applied
DangerousRemains ==
  \E i \in 1..Len(ChangesAtOpen.dangerous) :
    \/ ChangesAtOpen.dangerous[i].type = "keypath_change"
    \/ ChangesAtOpen.dangerous[i].type = "store_delete"
         /\ config.removedStoreStrategy = "error"

\* the stores whose persisted keyPath differs from the declared one
KeyPathChanged ==
  {ChangesAtOpen.dangerous[i].storeName :
     i \in {j \in 1..Len(ChangesAtOpen.dangerous) :
              ChangesAtOpen.dangerous[j].type = "keypath_change"}}

\* the backup stores of the persisted database
Backups(idb) == {n \in DOMAIN idb.stores : isInternalStore(n)}

\* C11: when a dangerous change remains after the removed-store policy,
\* initialization fails, no connection asking for the target version is
\* opened, and the persisted version, stores, indexes, records and ledger are
\* what they were before the call.
C11_DangerousFailureTouchesNothing ==
  (VersionGiven /\ pc \in {"opening", "upgrading", "settled"} /\ DangerousRemains)
  => /\ pc = "settled"
     /\ state.error.kind = "DangerousSchemaChanges"
     /\ "open" \notin io
     /\ txState = "notStarted"
     /\ db = before

\* the open of a database holding records failed on a removed store
C11_Witness ==
  /\ pc = "settled"
  /\ state.error.kind = "DangerousSchemaChanges"
  /\ io = {"probe"}
  /\ \E n \in Undeclared : before.stores[n].records = Records

\* C12: a keyPath that differs between a persisted store and its declaration
\* makes initialization fail, naming the store, under both policies and both
\* strategies; the preserve policy leaves a keypath_change dangerous.
C12_KeyPathChangeAlwaysFails ==
  (VersionGiven /\ pc \in {"opening", "upgrading", "settled"} /\ KeyPathChanged # {})
  => /\ pc = "settled"
     /\ ~state.ready
     /\ state.error.kind = "DangerousSchemaChanges"
     /\ KeyPathChanged \subseteq state.error.stores
     /\ db = before

\* an explicit open above the persisted version, under preserve, failed on
\* a changed keyPath
C12_Witness ==
  /\ pc = "settled"
  /\ config.versionStrategy = "explicit"
  /\ config.removedStoreStrategy = "preserve"
  /\ config.version # <<>>
  /\ config.version[1] > before.version
  /\ KeyPathChanged # {}
  /\ state.error.kind = "DangerousSchemaChanges"

ExplicitSafeChanges ==
  /\ config.versionStrategy = "explicit"
  /\ config.version # <<>>
  /\ before.version >= 1
  /\ ChangesAtOpen.hasChanges
  /\ ~DangerousRemains

\* C15: explicit strategy, only safe changes, supplied version not greater
\* than the persisted one: nothing persisted changes, the warning lists
\* every deferred change, and the open becomes ready. Below the persisted
\* version the engine refuses the open, so this fails.
C15_DeferredChangesOpenReady ==
  (ExplicitSafeChanges /\ pc = "settled" /\ config.version[1] <= before.version)
  => /\ db = before
     /\ resolved.warning # <<>>
     /\ Len(resolved.warning[1]) =
          Len(ChangesAtOpen.safe) + Len(ChangesAtOpen.dangerous)
     /\ state.ready

\* C16: explicit strategy, supplied version above the persisted one, only
\* safe changes (a removed store under preserve being a rename): unless a
\* migration fails the open becomes ready, and the ready database is at the
\* supplied version with the declared schema apart from reserved stores.
C16_ExplicitUpgradeAppliesSafeChanges ==
  (ExplicitSafeChanges /\ config.version[1] > before.version)
  => /\ (pc = "settled" /\ Throws = {} /\ rejected = {}) => state.ready
     /\ state.ready => (db.version = config.version[1] /\ PersistedIsDeclared)

\* an explicit open two versions up moved a removed store to its backup
\* and applied another safe change
C16_Witness ==
  /\ ExplicitSafeChanges
  /\ config.version[1] = before.version + 2
  /\ state.ready
  /\ Backups(db) # Backups(before)
  /\ \E i \in 1..Len(ChangesAtOpen.safe) : ChangesAtOpen.safe[i].type # "store_add"

\* C17: the persisted version never decreases, whatever the opens and
\* their outcome; under the auto strategy one open changes it by 0 or 1.
C17_VersionNeverDecreases ==
  /\ [](config.versionStrategy = "auto" =>
          db.version \in {before.version, before.version + 1})
  /\ [][db'.version >= db.version]_vars

\* an auto open of an existing database raised the version by one
C17_Witness ==
  /\ config.versionStrategy = "auto"
  /\ before.version >= 1
  /\ db.version = before.version + 1

DuplicateStoreNames(stores) ==
  \E i, j \in 1..Len(stores) : i # j /\ stores[i].name = stores[j].name

DuplicateNames(names) == \E i, j \in 1..Len(names) : i # j /\ names[i] = names[j]

\* C18: openDB throws to its caller, before any connection to the engine
\* and without creating a database, when two declared stores share a name or
\* two migrations share a name, in one store or in two; a call it accepts
\* has neither.
C18_DuplicatesThrowSynchronously ==
  /\ (pc # "idle" /\ thrown = NoError) =>
       (~DuplicateStoreNames(config.stores) /\ ~DuplicateNames(declared))
  /\ thrown # NoError =>
       /\ thrown.kind \in {"DuplicateStoreName", "DuplicateMigrationName"}
       /\ pc = "settled"
       /\ io = {}
       /\ state = InitialState
       /\ db = before

\* openDB threw on two migrations of one name declared by two stores
C18_Witness ==
  /\ thrown.kind = "DuplicateMigrationName"
  /\ io = {}
  /\ \E i, j \in 1..Len(refused.stores) :
       /\ i # j
       /\ refused.stores[i].migrations # <<>>
       /\ refused.stores[j].migrations # <<>>

\* C19: explicit strategy without a version: initialization fails with the
\* version-required error before any engine connection (no probe, no open,
\* no database created), and the database never becomes ready.
C19_MissingVersionFailsBeforeIO ==
  (config.versionStrategy = "explicit" /\ config.version = <<>>)
  => /\ io = {}
     /\ db = before
     /\ ~state.ready
     /\ pc \in {"initializing", "settled"}
     /\ pc = "settled" => state.error = VersionRequiredError

\* the first open of a database failed for the missing version and no
\* database exists
C19_Witness ==
  /\ pc = "settled"
  /\ state.error = VersionRequiredError
  /\ io = {}
  /\ db = NoDatabase

\* C20 as stated: the error of an explicit strategy without a version is
\* thrown by the openDB call itself, like the duplicate-definition errors.
C20_MissingVersionThrownByOpenDB ==
  (config.versionStrategy = "explicit" /\ config.version = <<>>) =>
    thrown = VersionRequiredError

\* C20 amended: openDB never throws the version-required error; it accepts
\* the call and the error arrives through the readiness signal.
C20_MissingVersionRejectsReadiness ==
  /\ thrown.kind # "VersionRequired"
  /\ (refused.versionStrategy = "explicit" /\ refused.version = <<>>) =>
       thrown.kind \in {"DuplicateStoreName", "DuplicateMigrationName"}
  /\ (config.versionStrategy = "explicit" /\ config.version = <<>> /\ pc = "settled") =>
       (thrown = NoError /\ state.error = VersionRequiredError)

\* openDB returned and readiness was rejected with the version-required error
C20_Witness ==
  /\ config.versionStrategy = "explicit"
  /\ config.version = <<>>
  /\ thrown = NoError
  /\ state.error = VersionRequiredError

\* a migration of this upgrade failed and the open failed with it
MigrationFailed ==
  /\ pc = "settled"
  /\ state.error # NoError
  /\ Throws # {} \/ rejected # {}

\* the migrations of this upgrade that threw or whose promise rejected
FailedNames == {trace[i].name : i \in Throws} \cup rejected

\* C23: when a migration fails, the error the open fails with wraps the
\* underlying failure and names the failing migration. handleUpgrade
\* rethrows the caught error unchanged, or only aborts the transaction, so
\* the open fails with an error that names no migration: this fails.
C23_FailureNamesTheMigration ==
  MigrationFailed =>
    (state.error.kind = "MigrationFailure" /\ state.error.migration \in FailedNames)

SafeChangesOfUpgrade ==
  IF resolved.autoChanges = <<>> THEN <<>> ELSE resolved.autoChanges[1].safe

\* C28: once the body of a migration has started, every safe change of the
\* upgrade has been applied, the creation of each backup store and the copy
\* of its records included. The backup is created in the success callback
\* of getAll, which runs after handleUpgrade has returned, so this fails.
C28_SafeChangesBeforeMigrations ==
  (pc = "upgrading" /\ before.version >= 1 /\ Started # {}) =>
    \A i \in 1..Len(SafeChangesOfUpgrade) :
      SafeChangesOfUpgrade[i].type = "store_rename" =>
        /\ SafeChangesOfUpgrade[i].newName \in DOMAIN tx.stores
        /\ Step("store_rename", SafeChangesOfUpgrade[i].oldName, "onsuccess")
             \in Range(tx.steps)

\* C29: while the read of a renamed store's records is outstanding the old
\* store has not been deleted. applySafeChanges calls deleteObjectStore
\* right after queueing getAll, so this fails.
C29_ReadCompletesBeforeDelete ==
  \A i \in 1..Len(tx.requests) : tx.requests[i].oldName \in DOMAIN tx.stores

\* the steps applySafeChanges takes before it returns
SyncSteps == SelectSeq(tx.steps, LAMBDA s : s.detail # "onsuccess")

Rank(step) ==
  CASE step.type = "store_rename" -> 1
    [] step.type = "store_add" -> 2
    [] step.type = "index_add" -> 3
    [] step.type = "index_delete" -> 4

\* C30 as stated: the executor applies all renames, then all new stores,
\* then all index additions, then all index deletions.
C30_FixedOrderOfSafeChanges ==
  \A i, j \in 1..Len(SyncSteps) : i < j => Rank(SyncSteps[i]) <= Rank(SyncSteps[j])

\* the steps of the renames, then one step per other change, in list order
RenameSteps(changes) ==
  Flatten([i \in 1..Len(changes) |->
             IF changes[i].type = "store_rename"
             THEN << Step("store_rename", changes[i].oldName, "getAll"),
                     Step("store_rename", changes[i].oldName, "deleteObjectStore") >>
             ELSE <<>>])

OtherSteps(changes) ==
  Flatten([i \in 1..Len(changes) |->
             IF changes[i].type = "store_rename" THEN <<>>
             ELSE IF changes[i].type = "store_add"
             THEN << Step("store_add", changes[i].storeName, "") >>
             ELSE << Step(changes[i].type, changes[i].storeName, changes[i].indexName) >>])

\* C30 amended: the executor first reads and deletes every renamed store,
\* then applies the other safe changes one by one in the order the schema
\* comparison listed them (store by store; a replaced index is deleted and
\* then added), whatever their kind.
C30_RenamesThenListedOrder ==
  (pc = "upgrading" /\ before.version >= 1 /\ ~tx.threw) =>
    SyncSteps = RenameSteps(SafeChangesOfUpgrade) \o OtherSteps(SafeChangesOfUpgrade)

\* an upgrade renamed a store, and deleted an index before adding one
C30_Witness ==
  /\ pc = "upgrading"
  /\ ~tx.threw
  /\ \E k \in 1..Len(SyncSteps) : SyncSteps[k].type = "store_rename"
  /\ \E i, j \in 1..Len(SyncSteps) :
       i < j /\ SyncSteps[i].type = "index_delete" /\ SyncSteps[j].type = "index_add"

\* the diff of what the call before this one found against what it declared
ChangesAtPrior ==
  detectSchemaChanges(readExistingSchema(prior.before), prior.config.stores)

\* the call before this one was an auto open of an existing database that
\* added one index and became ready; this one is an auto open that removes
\* that index and became ready
AddedThenRemoved ==
  /\ prior.config.versionStrategy = "auto"
  /\ prior.before.version >= 1
  /\ prior.ready
  /\ config.versionStrategy = "auto"
  /\ state.ready
  /\ ChangesAtPrior.dangerous = <<>>
  /\ Len(ChangesAtPrior.safe) = 1
  /\ ChangesAtPrior.safe[1].type = "index_add"
  /\ ChangesAtOpen.dangerous = <<>>
  /\ ChangesAtOpen.safe =
       << IndexDelete(ChangesAtPrior.safe[1].storeName, ChangesAtPrior.safe[1].indexName) >>

\* C27: from a persisted schema P, an auto open that adds one index
\* followed by an auto open that removes it again leaves the persisted
\* schema equal to P: the same stores, keyPaths and indexes, each index
\* with the same keyPath, unique and multiEntry.
C27_AddThenRemoveIndexRestores ==
  AddedThenRemoved => readExistingSchema(db) = readExistingSchema(prior.before)

\* the second open of such a pair is ready, two versions above P
C27_Witness ==
  /\ AddedThenRemoved
  /\ db.version = prior.before.version + 2
  /\ ChangesAtPrior.safe[1].index.unique = <<TRUE>>

\* the calls whose continuation has run
Resumed == {i \in 1..Len(calls) : calls[i].status # "awaiting"}

\* C21: once initialization has failed (an unsafe change, a failed
\* migration), readiness is rejected with that error once and for all: the
\* state's error never changes, ready stays false, and every store
\* operation, invoked before or after the failure, rejects with that same
\* error and nothing reaches the engine.
C21_FailureRejectsEveryOperation ==
  /\ [](state.error # NoError =>
          /\ ~state.ready
          /\ ~state.idb
          /\ \A i \in Resumed :
               /\ calls[i].status = "rejected"
               /\ calls[i].error = state.error
               /\ ~calls[i].delegated)
  /\ [][state.error # NoError => (db' = db /\ (state' = state \/ pc' = "idle"))]_vars

\* an operation invoked before the failure and one invoked after it were
\* both rejected with the error of the failed initialization
C21_Witness ==
  /\ state.error.kind \in {"DangerousSchemaChanges", "AbortError"}
  /\ Len(calls) = 2
  /\ calls[1].early
  /\ ~calls[2].early
  /\ Resumed = {1, 2}

\* C22: a store operation invoked before initialization has finished is
\* delegated to the engine only after the open has completed, its upgrade
\* transaction included; when the open succeeded it then runs against the
\* ready connection and its effect is persisted.
C22_OperationsWaitForReady ==
  [][\A i \in 1..Len(calls) :
       (calls[i].status = "awaiting" /\ i <= Len(calls') /\ calls'[i].status # "awaiting") =>
         /\ pc = "settled"
         /\ txState # "inUpgrade"
         /\ state.ready =>
              /\ calls'[i].status = "done"
              /\ calls'[i].delegated
              /\ calls[i].storeName \in DOMAIN db'.stores
              /\ calls[i].record \in db'.stores[calls[i].storeName].records]_vars

\* an operation invoked while the open was in progress ran after the
\* upgrade of an existing database had committed
C22_Witness ==
  /\ before.version >= 1
  /\ txState = "committed"
  /\ \E i \in Resumed : calls[i].early /\ calls[i].status = "done"

\* the records the stores of the transaction hold in the database
Persisted == StoreRecords(db, utx.scope)

\* C25: after abort() on a transaction with queued operations none of them
\* has an effect on the database, and a commit() called after the abort is
\* rejected. commit() attaches its handlers when it is called, so called
\* after the abort event was dispatched its promise never settles: this
\* fails.
C25_AbortDiscardsAndCommitRejects ==
  (utx.abortCalled /\ utx.accepted # <<>>) =>
    /\ Persisted = utx.base
    /\ (utx.commitAfterAbort /\ utx.event = "fired") => utx.promise = "rejected"

\* C26: when the promise of commit() has resolved, the effects of all
\* operations queued on all stores of the transaction are persisted; at any
\* time the stores hold either what they held when the transaction started
\* or the effects of all its operations, never those of only some.
C26_CommitIsAllOrNothing ==
  utx.status # "none" =>
    /\ utx.promise = "resolved" =>
         (utx.status = "committed" /\ Persisted = Effects(utx.accepted, utx.base))
    /\ Persisted = IF utx.status = "committed"
                   THEN Effects(utx.accepted, utx.base)
                   ELSE utx.base

\* commit() resolved for a transaction that changed both of its stores
C26_Witness ==
  /\ utx.promise = "resolved"
  /\ Cardinality(utx.scope) = 2
  /\ \A n \in utx.scope : Persisted[n] # utx.base[n]

\* the schema the call found when openDB was called
ExistingAtOpen == readExistingSchema(before)

\* the declared stores the database has already, with the keyPath declared
KeptStores ==
  {i \in 1..Len(config.stores) :
     /\ config.stores[i].name \in DOMAIN ExistingAtOpen
     /\ keyPathEquals(ExistingAtOpen[config.stores[i].name].keyPath, config.stores[i].keyPath)}

\* the declared indexes <<i, k>> (index k of store i) that the database has
\* under the same name with another keyPath, unique or multiEntry
ReplacedIndexes ==
  {p \in UNION {{<<i, k>> : k \in 1..Len(config.stores[i].indexes)} : i \in KeptStores} :
     /\ config.stores[p[1]].indexes[p[2]].name
          \in DOMAIN ExistingAtOpen[config.stores[p[1]].name].indexes
     /\ ExistingAtOpen[config.stores[p[1]].name].indexes[config.stores[p[1]].indexes[p[2]].name]
          # [keyPath |-> config.stores[p[1]].indexes[p[2]].keyPath,
             unique |-> OrFalse(config.stores[p[1]].indexes[p[2]].unique),
             multiEntry |-> OrFalse(config.stores[p[1]].indexes[p[2]].multiEntry)]}

\* C31: for an index the database and the declaration both have, with a
\* different keyPath, unique or multiEntry, the safe list of the comparison
\* holds an index_delete immediately followed by an index_add of that store
\* and index name, and the upgrade deletes the index right before it creates
\* it again, so no index is created under a name the store still has.
C31_ReplacedIndexDeletedThenAdded ==
  \A p \in ReplacedIndexes :
    /\ \E a \in 1..(Len(ChangesAtOpen.safe) - 1) :
         /\ ChangesAtOpen.safe[a] =
              IndexDelete(config.stores[p[1]].name, config.stores[p[1]].indexes[p[2]].name)
         /\ ChangesAtOpen.safe[a + 1] =
              IndexAdd(config.stores[p[1]].name, config.stores[p[1]].indexes[p[2]])
    /\ (pc = "upgrading" /\ before.version >= 1) =>
         /\ ~tx.threw
         /\ \E b \in 1..(Len(tx.steps) - 1) :
              /\ tx.steps[b] = Step("index_delete", config.stores[p[1]].name,
                                    config.stores[p[1]].indexes[p[2]].name)
              /\ tx.steps[b + 1] = Step("index_add", config.stores[p[1]].name,
                                        config.stores[p[1]].indexes[p[2]].name)

\* an upgrade replaced an index whose unique flag had changed, and committed
C31_Witness ==
  /\ ReplacedIndexes # {}
  /\ txState = "committed"
  /\ before.version >= 1
  /\ \E n \in DOMAIN ExistingAtOpen :
       /\ n \in DOMAIN db.stores
       /\ \E x \in DOMAIN ExistingAtOpen[n].indexes :
            /\ x \in DOMAIN db.stores[n].indexes
            /\ db.stores[n].indexes[x].unique # ExistingAtOpen[n].indexes[x].unique

\* the declared stores the database has already under another keyPath: a
\* keyPath is a string, a list of strings or null, and two of them are the
\* same when they are of the same kind with the same strings in the same order
ChangedKeyPaths ==
  {i \in 1..Len(config.stores) :
     /\ config.stores[i].name \in DOMAIN ExistingAtOpen
     /\ \/ ExistingAtOpen[config.stores[i].name].keyPath.kind # config.stores[i].keyPath.kind
        \/ ExistingAtOpen[config.stores[i].name].keyPath.path # config.stores[i].keyPath.path}

\* C32: for every store of both schemas whose keyPath differs (a string and
\* a one-element list differ), the comparison lists exactly one
\* keypath_change of that store as dangerous, from the existing to the
\* declared keyPath, and no safe change of that store, whatever its indexes.
C32_KeyPathChangeIsDangerousOnly ==
  \A i \in ChangedKeyPaths :
    /\ Cardinality({a \in 1..Len(ChangesAtOpen.dangerous) :
                      /\ ChangesAtOpen.dangerous[a].type = "keypath_change"
                      /\ ChangesAtOpen.dangerous[a].storeName = config.stores[i].name}) = 1
    /\ \A a \in 1..Len(ChangesAtOpen.dangerous) :
         ChangesAtOpen.dangerous[a].storeName = config.stores[i].name =>
           ChangesAtOpen.dangerous[a] =
             [type |-> "keypath_change", storeName |-> config.stores[i].name,
              oldKeyPath |-> ExistingAtOpen[config.stores[i].name].keyPath,
              newKeyPath |-> config.stores[i].keyPath]
    /\ \A a \in 1..Len(ChangesAtOpen.safe) :
         ChangesAtOpen.safe[a].storeName # config.stores[i].name

\* an open declared a one-element list where the store has the string as
\* keyPath, together with an index the store does not have, and failed
C32_Witness ==
  /\ pc = "settled"
  /\ state.error.kind = "DangerousSchemaChanges"
  /\ \E i \in ChangedKeyPaths :
       /\ ExistingAtOpen[config.stores[i].name].keyPath.kind = "scalar"
       /\ config.stores[i].keyPath.kind = "array"
       /\ ExistingAtOpen[config.stores[i].name].keyPath.path = config.stores[i].keyPath.path
       /\ \E k \in 1..Len(config.stores[i].indexes) :
            config.stores[i].indexes[k].name
              \notin DOMAIN ExistingAtOpen[config.stores[i].name].indexes

\* the positions of a list of changes that concern the store `name`
ChangesOfStore(changes, name) ==
  {a \in 1..Len(changes) : changes[a].storeName = name}

\* C33: the comparison lists exactly one safe store_add, and nothing else,
\* for each store only the declaration has; exactly one dangerous
\* store_delete, and nothing else, for each store only the database has; no
\* change of the store itself for a store of both with the same keyPath; and
\* hasChanges is true exactly when one of the two lists is not empty.
C33_StoreChangesOfTheComparison ==
  /\ \A i \in 1..Len(config.stores) :
       config.stores[i].name \notin DOMAIN ExistingAtOpen =>
         /\ Cardinality(ChangesOfStore(ChangesAtOpen.safe, config.stores[i].name)) = 1
         /\ \A a \in ChangesOfStore(ChangesAtOpen.safe, config.stores[i].name) :
              ChangesAtOpen.safe[a] = [type |-> "store_add", storeName |-> config.stores[i].name]
         /\ ChangesOfStore(ChangesAtOpen.dangerous, config.stores[i].name) = {}
  /\ \A n \in DOMAIN ExistingAtOpen \ DesiredNames(config.stores) :
       /\ Cardinality(ChangesOfStore(ChangesAtOpen.dangerous, n)) = 1
       /\ \A a \in ChangesOfStore(ChangesAtOpen.dangerous, n) :
            ChangesAtOpen.dangerous[a] = [type |-> "store_delete", storeName |-> n]
       /\ ChangesOfStore(ChangesAtOpen.safe, n) = {}
  /\ \A i \in KeptStores :
       /\ ChangesOfStore(ChangesAtOpen.dangerous, config.stores[i].name) = {}
       /\ \A a \in ChangesOfStore(ChangesAtOpen.safe, config.stores[i].name) :
            ChangesAtOpen.safe[a].type \in {"index_add", "index_delete"}
  /\ ChangesAtOpen.hasChanges <=>
       (ChangesAtOpen.safe # <<>> \/ ChangesAtOpen.dangerous # <<>>)

\* an open declared a new store with an index next to a store whose index
\* changes, and its upgrade committed
C33_Witness ==
  /\ txState = "committed"
  /\ before.version >= 1
  /\ KeptStores # {}
  /\ \E i \in 1..Len(config.stores) :
       /\ config.stores[i].name \notin DOMAIN ExistingAtOpen
       /\ config.stores[i].indexes # <<>>
       /\ Len(ChangesAtOpen.safe) > 1

\* the names of the pending list, in the order of the list
PendingNames ==
  [i \in 1..Len(resolved.pendingMigrations) |-> resolved.pendingMigrations[i].name]

\* C34: the pending list handed to the upgrade holds the registered
\* migrations whose names the persisted ledger lacks, in ascending order of
\* name; on the first open of a database that is every registered migration.
\* Under the auto strategy the ledger of a database at version 1 with an
\* unchanged schema is not read, and every registered migration is handed
\* over as pending, so this fails.
C34_PendingIsRegisteredMinusLedger ==
  pc = "upgrading" =>
    /\ Range(PendingNames) = Registered \ before.ledger
    /\ \A i, j \in 1..Len(PendingNames) : i < j => PendingNames[i] < PendingNames[j]

\* the name starts with "__"
Reserved(n) == n.del # 0 \/ n.base = "__schema_history__"

\* C35: the ledger store and the backup stores never appear in the schema
\* read from the database, so in every open, also after a preserve rename
\* and under either removed-store policy, no change of the comparison, no
\* error and no rename concerns one of them, and a committed upgrade leaves
\* every backup as it was.
C35_ReservedStoresAreInvisible ==
  /\ \A n \in DOMAIN ExistingAtOpen : ~Reserved(n)
  /\ \A a \in 1..Len(ChangesAtOpen.dangerous) : ~Reserved(ChangesAtOpen.dangerous[a].storeName)
  /\ \A a \in 1..Len(ChangesAtOpen.safe) : ~Reserved(ChangesAtOpen.safe[a].storeName)
  /\ \A n \in state.error.stores : ~Reserved(n)
  /\ \A a \in 1..Len(SafeChangesOfUpgrade) :
       SafeChangesOfUpgrade[a].type = "store_rename" => ~Reserved(SafeChangesOfUpgrade[a].oldName)
  /\ txState = "committed" =>
       /\ before.history => db.history
       /\ \A n \in DOMAIN before.stores :
            Reserved(n) => (n \in DOMAIN db.stores /\ db.stores[n] = before.stores[n])

\* under the error policy an open of a database that holds a backup and the
\* ledger store applied a change and became ready
C35_Witness ==
  /\ config.removedStoreStrategy = "error"
  /\ before.history
  /\ \E n \in DOMAIN before.stores : Reserved(n)
  /\ ChangesAtOpen.hasChanges
  /\ txState = "committed"
  /\ state.ready

ResolvedNow == ResolveVersion(db, config, allMigrations)

\* C37: with two openDB calls running on the same database name, every
\* upgrade starts from a diff, a target version and a pending list that the
\* schema, the version and the ledger persisted at that moment give: no
\* upgrade of the other call has committed since the call's probe. Nothing
\* orders the probe of one call against the upgrade of the other, so this
\* fails.
C37_UpgradeActsOnPersistedState ==
  [][(pc = "opening" /\ pc' = "upgrading") =>
       /\ ResolvedNow.err = NoError
       /\ ResolvedNow.version = resolved.version
       /\ ResolvedNow.autoChanges = resolved.autoChanges
       /\ filterPendingMigrations(allMigrations, ResolvedNow.appliedMigrations)
            = resolved.pendingMigrations]_vars

\* C38: the upgrade of one call moves forward only, from notStarted through
\* inUpgrade to committed or aborted; the upgrade handler runs once; and no
\* operation is issued against the upgrade transaction once it has
\* committed or aborted. The rejection handler of a migration's promise
\* calls tx.abort() whenever the promise rejects, also after the
\* transaction has ended, so this fails.
C38_NoOperationAfterTheUpgradeEnded ==
  [][pc' # "idle" =>
       /\ txState' # txState =>
            \/ txState = "notStarted" /\ txState' \in {"inUpgrade", "aborted"}
            \/ txState = "inUpgrade" /\ txState' \in {"committed", "aborted"}
       /\ trace' # trace => txState = "notStarted"
       /\ tx' # tx => txState \in {"notStarted", "inUpgrade"}
       /\ rejected' # rejected => txState = "inUpgrade"]_vars

\* the explicit strategy was given the version the database has
SameVersionOpen ==
  /\ config.versionStrategy = "explicit"
  /\ before.version >= 1
  /\ config.version = <<before.version>>

\* C39: the body of a migration runs only inside an upgrade transaction. An
\* explicit open at the persisted version starts no upgrade, runs no
\* migration and leaves the ledger as it was, and the registered migrations
\* the ledger lacks stay pending: an explicit open that raises the version
\* is handed exactly those.
C39_NoUpgradeNoMigration ==
  /\ Started # {} => txState # "notStarted"
  /\ SameVersionOpen =>
       /\ Started = {}
       /\ txState = "notStarted"
       /\ db = before
       /\ (pc = "opening" \/ state.ready) => Range(PendingNames) = Registered \ db.ledger
  /\ (config.versionStrategy = "explicit" /\ pc = "upgrading") =>
       Range(PendingNames) = Registered \ before.ledger

\* an explicit open at the persisted version is ready while a registered
\* migration is missing from the ledger
C39_Witness ==
  /\ SameVersionOpen
  /\ state.ready
  /\ Registered \ db.ledger # {}

\* C40: the promise commit() returned settles eventually, whenever commit()
\* was called: while it is pending the transaction is still there, and it
\* leads to a resolved or rejected promise or to a database that was closed.
\* commit() attaches oncomplete, onerror and onabort when it is called, and
\* an event dispatched before that reaches no handler: called after the
\* transaction completed or aborted, its promise stays pending. This fails.
C40_CommitAlwaysSettles ==
  [](utx.promise = "pending" =>
       <>(utx.promise \in {"resolved", "rejected"} \/ utx.status = "none"))

====
